---- MODULE Spec2Model ----
(***************************************************************************)
(* Halloween Haunt: Candy Quest.  A state-machine model of the player's    *)
(* damage / power-up bookkeeping (entities.py), the ghost AI               *)
(* (entities.py), the special-features manager (special_features.py) and   *)
(* the game manager's state machine and level cache (game_manager.py,      *)
(* levels.py).                                                             *)
(*                                                                         *)
(* One set of variables is shared by several specifications; each          *)
(* specification drives one part of the program and leaves the variables   *)
(* of the other parts at their constructed values:                         *)
(*   Spec          Player: update tick, take_damage, add_powerup(SHIELD)   *)
(*   SpecPowerups  Player: update tick, add_powerup of any kind            *)
(*   SpecGhost     Ghost.update against a player that changes position     *)
(*   SpecPlay      GameManager: a loaded game played tick by tick          *)
(*   SpecNav       GameManager: menus, pause, settings, level (re)loading  *)
(*   SpecFeatures  SpecialFeaturesManager: puzzles and digging sites       *)
(***************************************************************************)
EXTENDS Integers, Sequences, FiniteSets, TLC

VARIABLES
    \* ---- Player (entities.py, class Player)
    health,               \* self.health
    invincible_timer,     \* self.invincible_timer
    active_powerups,      \* self.active_powerups : list of PowerUp(type, duration)
    shield_active,        \* self.shield_active        (flag cached by update)
    invisibility_active,  \* self.invisibility_active  (flag cached by update)
    time_slow_active,     \* self.time_slow_active     (flag cached by update)
    double_points_active, \* self.double_points_active (flag cached by update)
    candies_collected,    \* self.candies_collected
    score,                \* self.score
    player_vx,            \* self.vx, in tenths of a pixel per tick
    player_vy,            \* self.vy
    \* ---- three Candy objects (entities.py, class Candy), one of each type
    candies,              \* per candy: type, points, collected
    \* ---- one Ghost (entities.py, class Ghost) and the player position it is
    \*      handed; positions and speeds are in tenths of a pixel, along one
    \*      row of the tile map
    ghost_x,              \* self.x
    ghost_vx,             \* self.vx
    ghost_state,          \* self.state: "patrol", "chase", "return"
    chase_timer,          \* self.chase_timer
    current_patrol_target,\* self.current_patrol_target (0-based)
    player_x,             \* player.x
    chase_run,            \* history: consecutive updates that ended in "chase"
    \* ---- GameManager / LevelManager (game_manager.py, levels.py)
    current_state,        \* self.current_state  (GameState)
    previous_state,       \* self.previous_state
    tutorial_completed,   \* self.tutorial.completed
    tutorial,             \* self.tutorial: step and timers of TutorialOverlay
    saved_level,          \* "level" in the save file (SaveManager)
    saved_tutorial,       \* "tutorial_completed" in the save file
    current_level_number, \* level_manager.current_level_number
    levels,               \* level_manager.levels: number -> cached Level
    current_level,        \* self.current_level: 0 for None, else the number
                          \* under which the Level object sits in the cache
    night_mode_timer,     \* self.night_mode_timer
    night_mode_active,    \* self.night_mode_active
    player_xy,            \* (player.x, player.y) in the game, tenths of a pixel
    \* ---- SpecialFeaturesManager (special_features.py)
    church_puzzles,       \* self.church_puzzles : list of ChurchPuzzle
    digging_sites,        \* self.digging_sites  : list of CemeteryDigging
    active_puzzle,        \* self.active_puzzle  (index into the list, 0: None)
    active_digging,       \* self.active_digging (index into the list, 0: None)
    traps,                \* self.traps : list of JackOLanternTrap
    traps_added,          \* history: add_trap calls made
    space_presses,        \* history: updates made with SPACE pressed, counted
                          \* up to MaxSpacePresses
    \* ---- TileMap (entities.py)
    tile_map,             \* a TileMap: self.width, self.height, self.tiles
    \* ---- Level (levels.py)
    level,                \* a Level as Level.__init__ leaves it
    \* ---- EasterEgg (entities.py)
    egg,                  \* an EasterEgg
    \* ---- GameManager._update_gameplay, statement by statement
    tick_steps,           \* the steps of the running _update_gameplay call that
                          \* are done, in the order of their execution
    updates_run,          \* (history) the _update_gameplay calls that returned
    \* ---- Player.update and Ghost.update on a TileMap
    map_updates,          \* (history) how many updates were made on tile_map
    map_ghost,            \* a Ghost on tile_map, with its position in the plane
    \* ---- GameManager._update_gameplay with traps and several ghosts
    since_loss,           \* (history) the _update_gameplay calls made since the
                          \* one in which the player last lost health, counted
                          \* up to INVINCIBILITY_DURATION
    \* ---- SaveManager (halloween_haunt.py)
    save_file,            \* what save_data.txt holds
    high_scores_file,     \* what high_scores.txt holds
    submitted,            \* history: the scores handed to save_high_score
    io_failed,            \* history: the kinds of access to high_scores.txt
                          \* ("read", "write") that have failed
    \* ---- bookkeeping of the last call
    op,                   \* the operation that made the last step
    arg,                  \* the arguments it was called with
    ret                   \* what that operation returned

playerVars == <<health, invincible_timer, active_powerups, shield_active,
                invisibility_active, time_slow_active, double_points_active,
                candies_collected, score>>
moveVars == <<player_vx, player_vy>>
candyVars == <<candies>>
ghostVars == <<ghost_x, ghost_vx, ghost_state, chase_timer,
               current_patrol_target, player_x, chase_run>>
gameCtl == <<current_state, previous_state, tutorial_completed, tutorial,
             saved_level, saved_tutorial,
             current_level_number, levels, current_level, night_mode_timer,
             night_mode_active>>
gameVars == <<gameCtl, player_xy>>
featVars == <<church_puzzles, digging_sites, active_puzzle, active_digging,
              traps, traps_added, space_presses>>
saveVars == <<save_file, high_scores_file, submitted, io_failed>>
tickVars == <<tick_steps, updates_run>>
walkVars == <<map_updates, map_ghost>>
hurtVars == <<since_loss>>
worldVars == <<tile_map, level, egg, saveVars, tickVars, walkVars, hurtVars>>
\* the variables of worldVars but those of one component
butTileMap == <<level, egg, saveVars, tickVars, walkVars, hurtVars>>
butLevel == <<tile_map, egg, saveVars, tickVars, walkVars, hurtVars>>
butEgg == <<tile_map, level, saveVars, tickVars, walkVars, hurtVars>>
butSave == <<tile_map, level, egg, tickVars, walkVars, hurtVars>>
butTick == <<tile_map, level, egg, saveVars, walkVars, hurtVars>>
butWalk == <<level, egg, saveVars, tickVars, hurtVars>>
butHurt == <<tile_map, level, egg, saveVars, tickVars, walkVars>>
callVars == <<op, arg, ret>>
vars == <<playerVars, moveVars, candyVars, ghostVars, gameVars, featVars,
          worldVars, callVars>>

(***************************************************************************)
(* Program constants                                                       *)
(***************************************************************************)
PLAYER_MAX_HEALTH == 3
PLAYER_MAX_SPEED == 30         \* 3.0 px per tick
PLAYER_ACCELERATION == 2       \* 0.2 px per tick and tick
PLAYER_DECELERATION == 15      \* 0.15, in hundredths
INVINCIBILITY_DURATION == 120
TILE_SIZE == 320               \* 32 px
MAP_WIDTH == 30                \* tiles
GHOST_SPEED == 15              \* 1.5 px per tick
GHOST_CHASE_SPEED == 25        \* 2.5 px per tick
GHOST_DETECTION_RADIUS == 1000 \* 100 px
CHASE_DURATION == 300          \* ticks: the value chase_timer is set to
RETURN_RADIUS == 200           \* 20 px: a returning ghost this near its start patrols
WAYPOINT_RADIUS == 100         \* 10 px: a patrol point this near counts as reached
MAP_HEIGHT == 20               \* tiles
CANDIES_TO_COLLECT == 15
MAX_LEVEL == 5                 \* LevelManager.max_level
NIGHT_LEVEL == 4               \* Level.night_mode = level_number >= 4
DAY_NIGHT_CYCLE_DURATION == 10800
NIGHT_GHOSTS == 2              \* ghosts added when night falls
NIGHT_GHOST_DISTANCE == 1600   \* 160 px
HEAL_CAP == 5                  \* Player.heal: min(5, ...)
NORMAL_POINTS == 10            \* Level._place_candies: points by candy type
CURSED_POINTS == 20
BONUS_POINTS == 25
PICKUP_PARTICLES == 8          \* particles a collected candy gives off
CURSE_DURATION == 300          \* cursed candy: SPEED_BOOST for 300 ticks
CURSED_FROM_LEVEL == 3         \* cursed candies are placed from level 3 on
PUZZLE_RADIUS == 500           \* 50 px: reach of ChurchPuzzle.interact
DIG_RADIUS == 300              \* 30 px: reach of CemeteryDigging.interact
REQUIRED_DIGS == 5
DIG_COOLDOWN == 30             \* ticks between accepted digs
ZOMBIE_DURATION == 900         \* ZOMBIE_POWER granted by a completed dig
PUZZLE_SCORE == 100            \* score granted by a solved church puzzle
EXPLOSION_DURATION == 30       \* updates from arming a trap to its explosion
TRIGGER_RADIUS == 400          \* 40 px: a player this near arms a trap
DAMAGE_RADIUS == 600           \* 60 px: a player this near an explosion is hit

\* PowerUpType, in an order that puts the kinds the player code reads first.
PowerUpType ==
    <<"SHIELD", "GHOST_REPEL", "SPEED_BOOST", "INVISIBILITY", "TIME_SLOW",
      "DOUBLE_POINTS", "CANDY_MAGNET", "ZOMBIE_POWER", "EXTRA_HEART">>

(***************************************************************************)
(* Bounds                                                                  *)
(***************************************************************************)
NumKinds == 3        \* power-up kinds the callers draw from: PowerUpType[1..NumKinds]
MaxDuration == 2     \* largest duration handed to add_powerup
MaxDamage == 3       \* take_damage is not called once health is PLAYER_MAX_HEALTH - MaxDamage

Kinds == {PowerUpType[i] : i \in 1..NumKinds}
Durations == 1..MaxDuration

MaxNightTimer == 3    \* ticks played in a level that has a day/night cycle
MaxNightGhosts == 1   \* night ghosts of the cached level 1 from which on no new
                      \* game is started in SpecNight
MaxNightAfter == 2    \* ticks followed after the tick in which night falls
MaxCollected == 2     \* candies a player picks up in SpecNav
MaxNavScore == 20     \* score from which on no candy is picked up in SpecNav
MaxPuzzles == 1       \* church puzzles added to the manager
MaxSites == 2         \* digging sites added to the manager
MaxSpacePresses == 1  \* updates made with SPACE pressed in SpecFeatures
MaxMines == 4         \* traps added, one after the other, in SpecMinefield
MaxTraps == 2         \* traps added to the manager in SpecTraps
MaxOverlap == 2       \* ghosts that overlap the player in one tick of SpecHurt
MaxHurtTraps == 1     \* traps added to the manager in SpecHurt
GridWidth == 2        \* width of the TileMap built in SpecTiles
GridHeight == 1       \* height of the TileMap built in SpecTiles
TileMargin == 1       \* how far outside the grid the coordinates handed to a
                      \* TileMap reach, on every side
MaxSetTiles == 1      \* cells of the map that set_tile makes non-empty
MaxBuiltLevel == 6    \* largest level number handed to Level.__init__
MaxScore == 1         \* largest score handed to save_high_score and save_progress
MaxSubmitted == 6     \* save_high_score calls followed
MaxUpdates == 3       \* _update_gameplay calls followed step by step
MaxMapUpdates == 4    \* updates of a player or a ghost followed on a TileMap
WalkWidth == 2        \* width of the TileMap built in SpecWalk
WalkHeight == 2       \* height of the TileMap built in SpecWalk
HauntWidth == 7       \* width of the TileMap built in SpecHaunt
HauntHeight == 2      \* height of the TileMap built in SpecHaunt

(***************************************************************************)
(* Player                                                                  *)
(***************************************************************************)
\* Squared distance between two points
Dist2(a, b) == (a.x - b.x) * (a.x - b.x) + (a.y - b.y) * (a.y - b.y)

Abs(n) == IF n < 0 THEN -n ELSE n
Sign(n) == IF n > 0 THEN 1 ELSE IF n < 0 THEN -1 ELSE 0

HasPowerup(ps, k) == \E i \in 1..Len(ps) : ps[i].type = k

IsAlive(p) == p.duration > 0

Decremented(ps) == [i \in 1..Len(ps) |-> [ps[i] EXCEPT !.duration = @ - 1]]

\* Player._update_powerups: prune the entries whose duration is not positive,
\* then decrement every entry that is left.
UpdatePowerups(ps) == Decremented(SelectSeq(ps, IsAlive))

\* (mutant) add_powerup that appends without dropping the old entry
AddPowerupList_Stacking(ps, k, d) == Append(ps, [type |-> k, duration |-> d])

\* Player.add_powerup: drop the entries of that type, append the new one.
AddPowerupList(ps, k, d) ==
    LET IsOther(p) == p.type # k
    IN  Append(SelectSeq(ps, IsOther), [type |-> k, duration |-> d])

\* Player.heal(1)
Heal(h) == IF h + 1 < HEAL_CAP THEN h + 1 ELSE HEAL_CAP

\* (mutant) take_damage without the invincibility test
CanBeDamaged_AnyTime(timer, shielded) == ~shielded

\* Player.take_damage's test: it reads the cached flag, not the list.
CanBeDamaged(timer, shielded) == timer <= 0 /\ ~shielded

NoArg == [kind |-> "none", duration |-> 0, replaced |-> FALSE]

\* Player.__init__
PlayerInit ==
    /\ health = PLAYER_MAX_HEALTH
    /\ invincible_timer = 0
    /\ active_powerups = << >>
    /\ shield_active = FALSE
    /\ invisibility_active = FALSE
    /\ time_slow_active = FALSE
    /\ double_points_active = FALSE
    /\ candies_collected = 0
    /\ score = 0
    /\ player_vx = 0
    /\ player_vy = 0

\* The part of Player.update after the movement: the power-up flags are
\* recomputed from the list as it stands before pruning, the invincibility
\* timer runs down, then the list is pruned and decremented.
PlayerUpdateState ==
    /\ shield_active' = HasPowerup(active_powerups, "SHIELD")
    /\ invisibility_active' = HasPowerup(active_powerups, "INVISIBILITY")
    /\ time_slow_active' = HasPowerup(active_powerups, "TIME_SLOW")
    /\ double_points_active' = HasPowerup(active_powerups, "DOUBLE_POINTS")
    /\ invincible_timer' = IF invincible_timer > 0 THEN invincible_timer - 1
                           ELSE invincible_timer
    /\ active_powerups' = UpdatePowerups(active_powerups)

\* Player.take_damage on the player's fields; the result is the return value.
TakeDamageState(result) ==
    IF CanBeDamaged(invincible_timer, shield_active)
    THEN /\ health' = health - 1
         /\ invincible_timer' = INVINCIBILITY_DURATION
         /\ result = TRUE
    ELSE /\ UNCHANGED <<health, invincible_timer>>
         /\ result = FALSE

\* keys_pressed, as far as Player.update reads it
KeySets == [left : BOOLEAN, right : BOOLEAN, up : BOOLEAN, down : BOOLEAN]
NoKeys == [left |-> FALSE, right |-> FALSE, up |-> FALSE, down |-> FALSE]

\* acceleration_x from A/LEFT (neg) and D/RIGHT (pos), acceleration_y from
\* W/UP and S/DOWN: the second test overwrites the first
Acceleration(neg, pos) ==
    IF pos THEN PLAYER_ACCELERATION
    ELSE IF neg THEN -PLAYER_ACCELERATION ELSE 0

\* A product or quotient cut to the grid of tenths, towards zero
TruncDiv(a, b) == Sign(a) * (Abs(a) \div b)

\* self.vx += acceleration_x, then self.vx *= (1.0 - PLAYER_DECELERATION)
\* when there is no input on that axis
Accelerated(v, a) ==
    IF a = 0 THEN TruncDiv((v + a) * (100 - PLAYER_DECELERATION), 100)
    ELSE v + a

IsSpeedBoost(p) == p.type = "SPEED_BOOST"

RECURSIVE Power(_, _)
Power(b, n) == IF n = 0 THEN 1 ELSE b * Power(b, n - 1)

\* max_speed = PLAYER_MAX_SPEED * speed_multiplier, where the multiplier
\* takes a factor 1.5 for every SPEED_BOOST entry of the list: a fraction
MaxSpeed(ps) ==
    LET k == Len(SelectSeq(ps, IsSpeedBoost))
    IN  [num |-> PLAYER_MAX_SPEED * Power(3, k), den |-> Power(2, k)]

\* (c / speed) * max_speed for a component c of a velocity whose squared
\* length is s2 > (max.num / max.den)^2, cut to the grid
Scaled(c, s2, max) ==
    Sign(c) * (CHOOSE n \in 0..Abs(c) :
                 /\ n * n * max.den * max.den * s2 <= c * c * max.num * max.num
                 /\ (n + 1) * (n + 1) * max.den * max.den * s2
                       > c * c * max.num * max.num)

LimitSpeed_Unlimited(v, max) == v

\* "Limit maximum speed"
LimitSpeed(v, max) ==
    LET s2 == v.vx * v.vx + v.vy * v.vy
    IN  IF s2 * max.den * max.den > max.num * max.num
        THEN [vx |-> Scaled(v.vx, s2, max), vy |-> Scaled(v.vy, s2, max)]
        ELSE v

\* The movement part of Player.update for the velocity: v is (vx, vy), ps
\* the power-up list, blocked_x / blocked_y what _check_wall_collision
\* returns for the move along x and then along y
MoveVelocity(v, keys, ps, blocked_x, blocked_y) ==
    LET a == [vx |-> Accelerated(v.vx, Acceleration(keys.left, keys.right)),
              vy |-> Accelerated(v.vy, Acceleration(keys.up, keys.down))]
        lim == LimitSpeed(a, MaxSpeed(ps))
    IN  [vx |-> IF blocked_x THEN 0 ELSE lim.vx,
         vy |-> IF blocked_y THEN 0 ELSE lim.vy]

\* ---- the calls, as actions
\* Player.update(keys_pressed, tile_map); of the tile map the update reads
\* whether the moves along x and along y are blocked.
PlayerUpdateWith(keys, blocked_x, blocked_y) ==
    LET v == MoveVelocity([vx |-> player_vx, vy |-> player_vy], keys,
                          active_powerups, blocked_x, blocked_y)
    IN  /\ PlayerUpdateState
        /\ player_vx' = v.vx
        /\ player_vy' = v.vy
        /\ UNCHANGED candyVars
        /\ UNCHANGED worldVars
        /\ op' = "update"
        /\ arg' = NoArg
        /\ ret' = FALSE
        /\ UNCHANGED <<health, candies_collected, score>>
        /\ UNCHANGED <<ghostVars, gameVars, featVars>>

\* Player.update with no movement key held and no wall in the way
PlayerUpdate == PlayerUpdateWith(NoKeys, FALSE, FALSE)

TakeDamage ==
    /\ health > PLAYER_MAX_HEALTH - MaxDamage
    /\ TakeDamageState(ret')
    /\ UNCHANGED <<moveVars, candyVars>>
    /\ UNCHANGED worldVars
    /\ op' = "take_damage"
    /\ arg' = NoArg
    /\ UNCHANGED <<active_powerups, shield_active, invisibility_active,
                   time_slow_active, double_points_active, candies_collected,
                   score>>
    /\ UNCHANGED <<ghostVars, gameVars, featVars>>

AddPowerup(k, d) ==
    /\ active_powerups' = AddPowerupList(active_powerups, k, d)
    /\ UNCHANGED <<moveVars, candyVars>>
    /\ UNCHANGED worldVars
    /\ op' = "add_powerup"
    /\ arg' = [kind |-> k, duration |-> d, replaced |-> HasPowerup(active_powerups, k)]
    /\ ret' = FALSE
    /\ UNCHANGED <<health, invincible_timer, shield_active, invisibility_active,
                   time_slow_active, double_points_active, candies_collected,
                   score>>
    /\ UNCHANGED <<ghostVars, gameVars, featVars>>

AddShield == \E d \in Durations : AddPowerup("SHIELD", d)

AddAnyPowerup == \E k \in Kinds, d \in Durations : AddPowerup(k, d)

(***************************************************************************)
(* Candy.  Three candies as Level._place_candies makes them, one of each   *)
(* type, and the player of the Player section.  The GameManager section    *)
(* below counts the collected candies of a level instead of following the  *)
(* objects.                                                                *)
(***************************************************************************)
\* Candy.__init__(x, y, candy_type, points)
NewCandy(type, points) == [type |-> type, points |-> points, collected |-> FALSE]

CandyInit ==
    candies = <<NewCandy("normal", NORMAL_POINTS),
                NewCandy("cursed", CURSED_POINTS),
                NewCandy("bonus", BONUS_POINTS)>>

\* Player.collect_candy: actual_points, from the cached flag
ActualPoints(points, double_flag) == points * (IF double_flag THEN 2 ELSE 1)

\* What Candy.collect adds to the score for a candy of the given type of
\* Level._place_candies ("none": no candy collected)
CandyScore(candy, double_flag) ==
    IF candy = "normal" THEN ActualPoints(NORMAL_POINTS, double_flag)
    ELSE IF candy = "cursed" THEN ActualPoints(CURSED_POINTS, double_flag)
    ELSE IF candy = "bonus"
    THEN ActualPoints(BONUS_POINTS, double_flag) + BONUS_POINTS
    ELSE 0

CandyCollect_Again(c, pl) ==
    [candy |-> [c EXCEPT !.collected = TRUE],
     pl |-> [pl EXCEPT !.candies_collected = @ + 1,
                       !.score = @ + ActualPoints(c.points, pl.double_flag)],
     particles |-> PICKUP_PARTICLES]

\* Candy.collect(player) on candy c and a player pl given by the fields
\* candies_collected, score, health, active_powerups and double_flag
\* (double_points_active): the candy, the player and the number of
\* particles returned
CandyCollect(c, pl) ==
    IF c.collected THEN [candy |-> c, pl |-> pl, particles |-> 0]
    ELSE LET counted ==
                 [pl EXCEPT !.candies_collected = @ + 1,
                            !.score = @ + ActualPoints(c.points, pl.double_flag)]
         IN  [candy |-> [c EXCEPT !.collected = TRUE],
              pl |-> IF c.type = "cursed"
                     THEN [counted EXCEPT !.active_powerups =
                              AddPowerupList(@, "SPEED_BOOST", CURSE_DURATION)]
                     ELSE IF c.type = "bonus"
                     THEN [counted EXCEPT !.score = @ + c.points,
                                          !.health = Heal(@)]
                     ELSE counted,
              particles |-> PICKUP_PARTICLES]

\* candies[i].collect(player)
CollectCandy(i) ==
    LET r == CandyCollect(candies[i],
                 [candies_collected |-> candies_collected, score |-> score,
                  health |-> health, active_powerups |-> active_powerups,
                  double_flag |-> double_points_active])
    IN  /\ candies' = [candies EXCEPT ![i] = r.candy]
        /\ candies_collected' = r.pl.candies_collected
        /\ score' = r.pl.score
        /\ health' = r.pl.health
        /\ active_powerups' = r.pl.active_powerups
        /\ UNCHANGED worldVars
        /\ op' = "collect"
        /\ arg' = [candy |-> i]
        /\ ret' = r.particles
        /\ UNCHANGED <<invincible_timer, shield_active, invisibility_active,
                       time_slow_active, double_points_active>>
        /\ UNCHANGED <<moveVars, ghostVars, gameVars, featVars>>

\* player.collect_candy(points)
CollectCandyCall(points) ==
    /\ candies_collected' = candies_collected + 1
    /\ score' = score + ActualPoints(points, double_points_active)
    /\ UNCHANGED worldVars
    /\ op' = "collect_candy"
    /\ arg' = [points |-> points]
    /\ ret' = FALSE
    /\ UNCHANGED <<health, invincible_timer, active_powerups, shield_active,
                   invisibility_active, time_slow_active, double_points_active>>
    /\ UNCHANGED <<moveVars, candyVars, ghostVars, gameVars, featVars>>

(***************************************************************************)
(* Ghost.  The ghost, its patrol points and the player stand on one open   *)
(* row of the map (the street row of the level layouts), so the unit       *)
(* vector towards a target is (+1, 0) or (-1, 0), vy stays 0 and every     *)
(* position is an exact multiple of half a pixel.                          *)
(***************************************************************************)
\* Ghost.__init__ arguments as Level._place_ghosts makes them: a tile centre,
\* and a patrol route that starts there and adds a point a tile further.
GhostStartX == 10 * TILE_SIZE + (TILE_SIZE \div 2)
PatrolPoints == <<GhostStartX, GhostStartX + TILE_SIZE>>

\* The player positions the ghost is shown: exactly the detection radius from
\* the ghost's start; exactly 1.5 radii from where the ghost stands after its
\* first chase step from the start; and a tenth of a pixel further than that.
NearStop == GhostStartX - GHOST_DETECTION_RADIUS
EdgeStop == GhostStartX - GHOST_CHASE_SPEED - ((3 * GHOST_DETECTION_RADIUS) \div 2)
PastEdgeStop == EdgeStop - 1
PlayerStops == {NearStop, EdgeStop, PastEdgeStop}

\* TileMap.is_solid_tile on that row: every tile of the row is street, and
\* out-of-bounds columns are wall.
RowIsSolid(tile_x) == tile_x < 0 \/ tile_x >= MAP_WIDTH

\* Ghost._check_wall_collision
GhostWallCollision(x) == RowIsSolid(x \div TILE_SIZE)

\* The speed used by _chase_player / _return_to_start / _patrol: 40% of it
\* while the player's time_slow_active flag is set.
SlowedSpeed(speed, slowed) == IF slowed THEN (speed * 4) \div 10 ELSE speed

\* (mutant) detection that misses a player standing exactly on the radius
DetectsPlayer_Strict(dist, invisible) ==
    dist < GHOST_DETECTION_RADIUS /\ ~invisible

\* The patrol branch's test: in range and the player's invisibility flag unset.
DetectsPlayer(dist, invisible) ==
    dist <= GHOST_DETECTION_RADIUS /\ ~invisible

\* (mutant) a chase that also ends at exactly 1.5 radii
ChaseEnds_Inclusive(timer, dist) ==
    timer <= 0 \/ 2 * dist >= 3 * GHOST_DETECTION_RADIUS

\* The chase branch's test, on the decremented timer:
\* distance > GHOST_DETECTION_RADIUS * 1.5, written without fractions.
ChaseEnds(timer, dist) ==
    timer <= 0 \/ 2 * dist > 3 * GHOST_DETECTION_RADIUS

\* (mutant) a returning ghost that looks for the player as a patrolling one
GhostNextState_ReturnDetects(state, timer, dist, dist_start, invisible) ==
    IF state = "chase"
    THEN IF ChaseEnds(timer - 1, dist)
         THEN [state |-> "return", timer |-> timer - 1, started |-> FALSE]
         ELSE [state |-> "chase", timer |-> timer - 1, started |-> FALSE]
    ELSE IF DetectsPlayer(dist, invisible)
    THEN [state |-> "chase", timer |-> CHASE_DURATION, started |-> TRUE]
    ELSE IF state = "return" /\ dist_start < RETURN_RADIUS
    THEN [state |-> "patrol", timer |-> timer, started |-> FALSE]
    ELSE [state |-> state, timer |-> timer, started |-> FALSE]

\* The state-management block of Ghost.update.
GhostNextState(state, timer, dist, dist_start, invisible) ==
    IF state = "patrol"
    THEN IF DetectsPlayer(dist, invisible)
         THEN [state |-> "chase", timer |-> CHASE_DURATION, started |-> TRUE]
         ELSE [state |-> "patrol", timer |-> timer, started |-> FALSE]
    ELSE IF state = "chase"
    THEN IF ChaseEnds(timer - 1, dist)
         THEN [state |-> "return", timer |-> timer - 1, started |-> FALSE]
         ELSE [state |-> "chase", timer |-> timer - 1, started |-> FALSE]
    ELSE IF dist_start < RETURN_RADIUS
         THEN [state |-> "patrol", timer |-> timer, started |-> FALSE]
         ELSE [state |-> "return", timer |-> timer, started |-> FALSE]

\* _chase_player, _return_to_start and _patrol: the velocity and the patrol
\* index after the movement step of the state just decided.
GhostMove(state, x, vx, idx, px, slowed) ==
    IF state = "chase"
    THEN [vx |-> IF px # x
                 THEN Sign(px - x) * SlowedSpeed(GHOST_CHASE_SPEED, slowed)
                 ELSE vx,
          idx |-> idx]
    ELSE IF state = "return"
    THEN [vx |-> IF GhostStartX # x
                 THEN Sign(GhostStartX - x) * SlowedSpeed(GHOST_SPEED, slowed)
                 ELSE 0,
          idx |-> idx]
    ELSE LET target == PatrolPoints[idx + 1]
         IN  IF Abs(target - x) < WAYPOINT_RADIUS
             THEN [vx |-> vx, idx |-> (idx + 1) % Len(PatrolPoints)]
             ELSE [vx |-> Sign(target - x) * SlowedSpeed(GHOST_SPEED, slowed),
                   idx |-> idx]

\* Ghost.__init__
GhostInit ==
    /\ ghost_x = GhostStartX
    /\ ghost_vx = 0
    /\ ghost_state = "patrol"
    /\ chase_timer = 0
    /\ current_patrol_target = 0
    /\ player_x = PastEdgeStop
    /\ chase_run = 0

\* Ghost.update(player, tile_map) for a player at px whose invisibility flag
\* is `invisible`; returns started_chasing.
GhostUpdate(px, invisible) ==
    LET dist == Abs(ghost_x - px)
        dist_start == Abs(ghost_x - GhostStartX)
        ns == GhostNextState(ghost_state, chase_timer, dist, dist_start, invisible)
        mv == GhostMove(ns.state, ghost_x, ghost_vx, current_patrol_target,
                        px, time_slow_active)
        new_x == ghost_x + mv.vx
    IN  /\ player_x' = px
        /\ invisibility_active' = invisible
        /\ ghost_state' = ns.state
        /\ chase_timer' = ns.timer
        /\ ghost_vx' = mv.vx
        /\ current_patrol_target' = mv.idx
        /\ ghost_x' = IF GhostWallCollision(new_x) THEN ghost_x ELSE new_x
        /\ chase_run' = IF ns.state = "chase" THEN chase_run + 1 ELSE 0
        /\ UNCHANGED <<moveVars, candyVars>>
        /\ UNCHANGED worldVars
        /\ op' = "ghost_update"
        /\ arg' = NoArg
        /\ ret' = ns.started
        /\ UNCHANGED <<health, invincible_timer, active_powerups, shield_active,
                       time_slow_active, double_points_active, candies_collected,
                       score>>
        /\ UNCHANGED <<gameVars, featVars>>

GhostTick == \E px \in PlayerStops, invisible \in BOOLEAN : GhostUpdate(px, invisible)

(***************************************************************************)
(* GameManager and LevelManager.  A Level object is represented by what    *)
(* play changes in it: how many of its candies are collected and how many  *)
(* ghosts were appended to it after generation.  The player exists exactly *)
(* when current_level is not None (start_new_game and load_game create     *)
(* both).  Particles, sounds and messages are left out, and the actions of *)
(* this section do not follow the player's score (GameManager displays and *)
(* saves it, and nothing it does depends on it): they leave score at the   *)
(* value of a new player, but for the key press of SpecNav.  In the        *)
(* game specifications no power-up is ever obtained (no Easter egg, church *)
(* puzzle, digging site or trap is in reach: the manager's feature lists   *)
(* are empty, _setup_special_features being a placeholder), so the         *)
(* candy-magnet loop of _update_gameplay_entities finds nothing to do.     *)
(***************************************************************************)
LevelNumbers == 1..(MAX_LEVEL + 1)

\* A cache slot without a Level, and a Level as Level.__init__ generates it.
NoLevel == [made |-> FALSE, collected |-> 0, extra_ghosts |-> 0]
FreshLevel == [made |-> TRUE, collected |-> 0, extra_ghosts |-> 0]

\* Level._place_candies: candies placed in a level
CandyCount == CANDIES_TO_COLLECT + 5

\* Level.night_mode
NightMode(n) == n >= NIGHT_LEVEL

\* Level._generate_level_1 (the base of every layout): spawn and house point
Spawn == [x |-> 12 * TILE_SIZE, y |-> (MAP_HEIGHT - 6) * TILE_SIZE]
House == [x |-> 4 * TILE_SIZE, y |-> (MAP_HEIGHT - 2) * TILE_SIZE]

\* Where the player may stand after a tick's movement: the spawn point, a
\* point exactly 1.5 tiles from the house point, and one a tenth of a pixel
\* further away.
HouseEdge == [x |-> House.x + ((3 * TILE_SIZE) \div 2), y |-> House.y]
PastHouseEdge == [x |-> HouseEdge.x + 1, y |-> House.y]
PlayerSpots == {Spawn, HouseEdge, PastHouseEdge}

\* _check_level_completion: distance_to_house <= TILE_SIZE * 1.5, squared
NearHouse(s) ==
    4 * ((s.x - House.x) * (s.x - House.x) + (s.y - House.y) * (s.y - House.y))
        <= 9 * TILE_SIZE * TILE_SIZE

\* LevelManager.load_level: the cached Level if there is one, else a new one
LoadLevel(lv, n) == IF lv[n].made THEN lv ELSE [lv EXCEPT ![n] = FreshLevel]

\* restart_current_level without the del: load_level gives the cached Level
RestartCurrentLevel_Cached(lv, n) == LoadLevel(lv, n)

\* LevelManager.restart_current_level: drop the cached Level, then load_level
RestartCurrentLevel(lv, n) == LoadLevel([lv EXCEPT ![n] = NoLevel], n)

\* LevelManager.is_final_level
IsFinalLevel(n) == n >= MAX_LEVEL

\* TutorialOverlay (ui.py): len(self.steps), step_duration, fade_duration and
\* the display time advance_step asks for
TUTORIAL_STEPS == 5
STEP_DURATION == 300
FADE_DURATION == 60
MIN_DISPLAY == 60

\* TutorialOverlay.__init__, without the completed flag
NewTutorial ==
    [current_step |-> 0, fade_in_timer |-> 0, display_timer |-> 0,
     fade_out_timer |-> 0]

\* TutorialOverlay.update(mouse_pos, mouse_clicked) on overlay t with flag
\* `completed`; `skip` says that the mouse was clicked on the skip button.
\* Gives the overlay, the flag and the returned value.
TutorialUpdate(t, completed, skip) ==
    IF completed THEN [t |-> t, completed |-> TRUE, ret |-> TRUE]
    ELSE IF skip THEN [t |-> t, completed |-> TRUE, ret |-> TRUE]
    ELSE IF t.fade_in_timer < FADE_DURATION
    THEN [t |-> [t EXCEPT !.fade_in_timer = @ + 1],
          completed |-> FALSE, ret |-> FALSE]
    ELSE IF t.display_timer < STEP_DURATION
    THEN [t |-> [t EXCEPT !.display_timer = @ + 1],
          completed |-> FALSE, ret |-> FALSE]
    ELSE IF t.fade_out_timer < FADE_DURATION
    THEN [t |-> [t EXCEPT !.fade_out_timer = @ + 1],
          completed |-> FALSE, ret |-> FALSE]
    ELSE IF t.current_step + 1 >= TUTORIAL_STEPS
    THEN [t |-> [t EXCEPT !.current_step = @ + 1],
          completed |-> TRUE, ret |-> TRUE]
    ELSE [t |-> [NewTutorial EXCEPT !.current_step = t.current_step + 1],
          completed |-> FALSE, ret |-> FALSE]

\* TutorialOverlay.advance_step
AdvanceStep(t, completed) ==
    IF ~completed /\ t.display_timer > MIN_DISPLAY
    THEN [t EXCEPT !.fade_out_timer = FADE_DURATION]
    ELSE t

StartState_AlwaysTutorial(completed) == "TUTORIAL"

\* start_new_game: "Start with tutorial if not completed"
StartState(completed) == IF ~completed THEN "TUTORIAL" ELSE "PLAYING"

\* GameManager.__init__ with the save file's content: the game starts in the
\* main menu, without player or level, and an empty level cache.
GameInit(saved, tutorial_saved) ==
    /\ current_state = "MAIN_MENU"
    /\ previous_state = "MAIN_MENU"
    /\ tutorial_completed = tutorial_saved
    /\ tutorial = NewTutorial
    /\ saved_level = saved
    /\ saved_tutorial = tutorial_saved
    /\ current_level_number = 1
    /\ levels = [n \in LevelNumbers |-> NoLevel]
    /\ current_level = 0
    /\ night_mode_timer = 0
    /\ night_mode_active = FALSE
    /\ player_xy = [x |-> 0, y |-> 0]

\* Player(0, 0) followed by placing it on the spawn point
NewPlayerAtSpawn ==
    /\ health' = PLAYER_MAX_HEALTH
    /\ invincible_timer' = 0
    /\ active_powerups' = << >>
    /\ shield_active' = FALSE
    /\ invisibility_active' = FALSE
    /\ time_slow_active' = FALSE
    /\ double_points_active' = FALSE
    /\ candies_collected' = 0
    /\ score' = 0
    /\ player_vx' = 0
    /\ player_vy' = 0
    /\ player_xy' = Spawn
    /\ UNCHANGED candyVars

\* The body of GameManager.start_new_game
StartNewGameState ==
    /\ NewPlayerAtSpawn
    /\ levels' = LoadLevel(levels, 1)
    /\ current_level_number' = 1
    /\ current_level' = 1
    /\ night_mode_timer' = 0
    /\ night_mode_active' = FALSE
    /\ current_state' = StartState(tutorial_completed)
    /\ UNCHANGED <<previous_state, tutorial_completed, tutorial, saved_level,
                   saved_tutorial>>

\* MainMenu "New Game" button (or RETURN in the main menu)
StartNewGame ==
    /\ current_state = "MAIN_MENU"
    /\ StartNewGameState
    /\ UNCHANGED worldVars
    /\ op' = "start_new_game" /\ arg' = NoArg /\ ret' = FALSE
    /\ UNCHANGED <<ghostVars, featVars>>

\* VictoryScreen "Endless" button: GameManager.start_endless_mode
StartEndlessMode ==
    /\ current_state = "VICTORY"
    /\ StartNewGameState
    /\ UNCHANGED worldVars
    /\ op' = "start_endless_mode" /\ arg' = NoArg /\ ret' = FALSE
    /\ UNCHANGED <<ghostVars, featVars>>

\* MainMenu "Continue" button: GameManager.load_game
LoadGame ==
    /\ current_state = "MAIN_MENU"
    /\ NewPlayerAtSpawn
    /\ levels' = LoadLevel(levels, saved_level)
    /\ current_level_number' = saved_level
    /\ current_level' = saved_level
    /\ current_state' = "PLAYING"
    /\ UNCHANGED worldVars
    /\ op' = "load_game" /\ arg' = NoArg /\ ret' = FALSE
    /\ UNCHANGED <<previous_state, tutorial_completed, tutorial, saved_level,
                   saved_tutorial,
                   night_mode_timer, night_mode_active>>
    /\ UNCHANGED <<ghostVars, featVars>>

\* PauseMenu / GameOverScreen "Restart" button: GameManager.restart_level
RestartLevel ==
    /\ current_state \in {"PAUSED", "GAME_OVER"}
    /\ current_level # 0
    /\ levels' = RestartCurrentLevel(levels, current_level_number)
    /\ current_level' = current_level_number
    /\ player_xy' = Spawn
    /\ health' = PLAYER_MAX_HEALTH
    /\ candies_collected' = 0
    /\ night_mode_timer' = 0
    /\ night_mode_active' = FALSE
    /\ current_state' = "PLAYING"
    /\ UNCHANGED <<moveVars, candyVars>>
    /\ UNCHANGED worldVars
    /\ op' = "restart_level" /\ arg' = NoArg /\ ret' = FALSE
    /\ UNCHANGED <<invincible_timer, active_powerups, shield_active,
                   invisibility_active, time_slow_active, double_points_active,
                   score>>
    /\ UNCHANGED <<previous_state, tutorial_completed, tutorial, saved_level,
                   saved_tutorial,
                   current_level_number>>
    /\ UNCHANGED <<ghostVars, featVars>>

\* PauseMenu / GameOverScreen / VictoryScreen "Main Menu" button:
\* GameManager.return_to_main_menu (with a player and a level: saves progress)
ReturnToMainMenu ==
    /\ current_state \in {"PAUSED", "GAME_OVER", "VICTORY"}
    /\ current_state' = "MAIN_MENU"
    /\ saved_level' = IF current_level # 0 THEN current_level_number ELSE saved_level
    /\ saved_tutorial' = IF current_level # 0 THEN tutorial_completed
                         ELSE saved_tutorial
    /\ UNCHANGED <<moveVars, candyVars>>
    /\ UNCHANGED worldVars
    /\ op' = "return_to_main_menu" /\ arg' = NoArg /\ ret' = FALSE
    /\ UNCHANGED <<previous_state, tutorial_completed, tutorial,
                   current_level_number,
                   levels, current_level, night_mode_timer, night_mode_active,
                   player_xy>>
    /\ UNCHANGED <<playerVars, ghostVars, featVars>>

\* (mutant) an update that runs the gameplay while the game is paused
UpdatesGameplay_WhenPaused(state) == state \in {"PLAYING", "PAUSED"}

\* GameManager.update: the state whose branch calls _update_gameplay
UpdatesGameplay(state) == state = "PLAYING"

\* GameManager.update: the states whose branch updates a menu or a screen
MenuStates == {"MAIN_MENU", "PAUSED", "GAME_OVER", "VICTORY", "SETTINGS"}

\* GameManager.update in one of these states without a click on a button
\* and, in the main menu, without ENTER held: nothing but the screen's
\* widgets and the visual effects is updated
MenuUpdate ==
    /\ current_state \in MenuStates
    /\ UNCHANGED <<playerVars, moveVars, candyVars, ghostVars, gameVars, featVars,
                   worldVars>>
    /\ op' = "menu_update" /\ arg' = NoArg /\ ret' = FALSE

\* SPACE outside gameplay and tutorial: _handle_space_key does nothing
SpaceIgnored ==
    /\ current_state \in MenuStates
    /\ UNCHANGED <<playerVars, moveVars, candyVars, ghostVars, gameVars, featVars,
                   worldVars>>
    /\ op' = "space_ignored" /\ arg' = NoArg /\ ret' = FALSE

\* GameManager.pause_game / resume_game, as reached from ESC
\* (_handle_escape_key); in the tutorial ESC skips to gameplay
\* (_transition_to_gameplay saves level 1).
EscapeKey ==
    /\ current_state \in {"PLAYING", "PAUSED", "TUTORIAL"}
    /\ IF current_state = "PLAYING"
       THEN /\ previous_state' = current_state
            /\ current_state' = "PAUSED"
            /\ UNCHANGED <<tutorial_completed, tutorial, saved_level,
                   saved_tutorial>>
       ELSE IF current_state = "PAUSED"
       THEN /\ current_state' = previous_state
            /\ UNCHANGED <<previous_state, tutorial_completed, tutorial, saved_level,
                   saved_tutorial>>
       ELSE /\ tutorial_completed' = TRUE
            /\ current_state' = "PLAYING"
            /\ saved_level' = 1
            /\ saved_tutorial' = TRUE
            /\ UNCHANGED <<previous_state, tutorial>>
    /\ UNCHANGED <<moveVars, candyVars>>
    /\ UNCHANGED worldVars
    /\ op' = "escape" /\ arg' = NoArg /\ ret' = FALSE
    /\ UNCHANGED <<current_level_number, levels, current_level,
                   night_mode_timer, night_mode_active, player_xy>>
    /\ UNCHANGED <<playerVars, ghostVars, featVars>>

\* GameManager.update in state TUTORIAL: tutorial.update, then
\* _transition_to_gameplay (which saves level 1, score 0 and the completed
\* tutorial) when it returned True, else _update_gameplay_entities, in which
\* the player ends its movement on `spot`.
TutorialTick(spot, skip) ==
    LET u == TutorialUpdate(tutorial, tutorial_completed, skip)
    IN  /\ current_state = "TUTORIAL"
        /\ tutorial' = u.t
        /\ tutorial_completed' = u.completed
        /\ current_state' = IF u.ret THEN "PLAYING" ELSE current_state
        /\ saved_level' = IF u.ret THEN 1 ELSE saved_level
        /\ saved_tutorial' = IF u.ret THEN TRUE ELSE saved_tutorial
        /\ IF u.ret \/ current_level = 0
           THEN UNCHANGED <<playerVars, player_xy>>
           ELSE /\ PlayerUpdateState
                /\ player_xy' = spot
                /\ UNCHANGED <<health, candies_collected, score>>
        /\ UNCHANGED <<moveVars, candyVars>>
        /\ UNCHANGED worldVars
        /\ op' = "tutorial_tick"
        /\ arg' = [spot |-> spot, skip |-> skip]
        /\ ret' = u.ret
        /\ UNCHANGED <<previous_state, current_level_number, levels,
                       current_level, night_mode_timer, night_mode_active>>
        /\ UNCHANGED <<ghostVars, featVars>>

\* SPACE in the tutorial: _handle_space_key -> tutorial.advance_step
SpaceKeyInTutorial ==
    /\ current_state = "TUTORIAL"
    /\ tutorial' = AdvanceStep(tutorial, tutorial_completed)
    /\ UNCHANGED <<moveVars, candyVars>>
    /\ UNCHANGED worldVars
    /\ op' = "space_tutorial" /\ arg' = NoArg /\ ret' = FALSE
    /\ UNCHANGED <<current_state, previous_state, tutorial_completed,
                   saved_level, saved_tutorial, current_level_number, levels,
                   current_level, night_mode_timer, night_mode_active,
                   player_xy>>
    /\ UNCHANGED <<playerVars, ghostVars, featVars>>

\* The game is left and started again.  With `quit_button` it is left by
\* the "Quit" button of the main menu or the pause menu (quit_game saves the
\* progress when there are a player and a level), else by closing the
\* window (the main loop ends without saving).  The new process runs
\* GameManager.__init__ on the save file as it stands.
Relaunch(quit_button) ==
    LET saves == quit_button /\ current_level # 0
    IN  /\ quit_button => current_state \in {"MAIN_MENU", "PAUSED"}
        /\ saved_level' = IF saves THEN current_level_number ELSE saved_level
        /\ saved_tutorial' = IF saves THEN tutorial_completed ELSE saved_tutorial
        /\ tutorial_completed' = saved_tutorial'
        /\ tutorial' = NewTutorial
        /\ current_state' = "MAIN_MENU"
        /\ previous_state' = "MAIN_MENU"
        /\ current_level_number' = 1
        /\ levels' = [n \in LevelNumbers |-> NoLevel]
        /\ current_level' = 0
        /\ night_mode_timer' = 0
        /\ night_mode_active' = FALSE
        /\ player_xy' = [x |-> 0, y |-> 0]
        /\ health' = PLAYER_MAX_HEALTH
        /\ invincible_timer' = 0
        /\ active_powerups' = << >>
        /\ shield_active' = FALSE
        /\ invisibility_active' = FALSE
        /\ time_slow_active' = FALSE
        /\ double_points_active' = FALSE
        /\ candies_collected' = 0
        /\ score' = 0
        /\ player_vx' = 0
        /\ player_vy' = 0
        /\ UNCHANGED candyVars
        /\ UNCHANGED worldVars
        /\ op' = "relaunch" /\ arg' = [quit_button |-> quit_button] /\ ret' = FALSE
        /\ UNCHANGED <<ghostVars, featVars>>

\* PauseMenu "Resume" button: GameManager.resume_game
ResumeButton ==
    /\ current_state = "PAUSED"
    /\ current_state' = previous_state
    /\ UNCHANGED <<moveVars, candyVars>>
    /\ UNCHANGED worldVars
    /\ op' = "resume_game" /\ arg' = NoArg /\ ret' = FALSE
    /\ UNCHANGED <<previous_state, tutorial_completed, tutorial, saved_level,
                   saved_tutorial,
                   current_level_number, levels, current_level,
                   night_mode_timer, night_mode_active, player_xy>>
    /\ UNCHANGED <<playerVars, ghostVars, featVars>>

\* MainMenu / PauseMenu "Settings" button: GameManager.show_settings
ShowSettings ==
    /\ current_state \in {"MAIN_MENU", "PAUSED"}
    /\ previous_state' = current_state
    /\ current_state' = "SETTINGS"
    /\ UNCHANGED <<moveVars, candyVars>>
    /\ UNCHANGED worldVars
    /\ op' = "show_settings" /\ arg' = NoArg /\ ret' = FALSE
    /\ UNCHANGED <<tutorial_completed, tutorial, saved_level,
                   saved_tutorial, current_level_number,
                   levels, current_level, night_mode_timer, night_mode_active,
                   player_xy>>
    /\ UNCHANGED <<playerVars, ghostVars, featVars>>

\* SettingsMenu "Back" button: GameManager.return_from_settings
ReturnFromSettings ==
    /\ current_state = "SETTINGS"
    /\ current_state' = previous_state
    /\ UNCHANGED <<moveVars, candyVars>>
    /\ UNCHANGED worldVars
    /\ op' = "return_from_settings" /\ arg' = NoArg /\ ret' = FALSE
    /\ UNCHANGED <<previous_state, tutorial_completed, tutorial, saved_level,
                   saved_tutorial,
                   current_level_number, levels, current_level,
                   night_mode_timer, night_mode_active, player_xy>>
    /\ UNCHANGED <<playerVars, ghostVars, featVars>>

\* Level._generate_level_2 / _generate_level_3: the tile that is the
\* CEMETERY_GATE of level n (levels 3 to 5 share the layout of level 3)
GateTile(n) ==
    IF n >= 3 THEN [x |-> MAP_WIDTH - 6, y |-> 8]
    ELSE [x |-> MAP_WIDTH - 8 + (6 \div 2), y |-> 2 + 6 - 1]

\* Level 1 has no cemetery.
HasGate(n) == n >= 2

\* The centre of the gate tile of levels 3 to 5
GateSpot ==
    [x |-> GateTile(3).x * TILE_SIZE + (TILE_SIZE \div 2),
     y |-> GateTile(3).y * TILE_SIZE + (TILE_SIZE \div 2)]

\* tile_map.get_tile(player_tile_x, player_tile_y) == TileType.CEMETERY_GATE
OnGate(xy, n) ==
    /\ HasGate(n)
    /\ xy.x \div TILE_SIZE = GateTile(n).x
    /\ xy.y \div TILE_SIZE = GateTile(n).y

\* SPACE in gameplay: _handle_space_key -> _handle_player_interactions with
\* at most one uncollected candy within the collection radius, of the given
\* type ("none": no candy in reach).  Candy.collect marks the candy collected,
\* calls Player.collect_candy and applies the type's effect.  `space_held` is
\* keys_pressed[K_SPACE], the key state sampled by the update before this
\* key press.  On the gate tile with the key held the handler calls
\* self._enter_cemetery, which GameManager does not define: the
\* AttributeError is caught nowhere and ends the main loop.  current_state
\* "CRASHED" (no GameState) stands for the process having ended that way.
SpacePress(candy, space_held, scored) ==
    /\ current_state = "PLAYING"
    /\ current_level # 0
    /\ candy # "none" => levels[current_level].collected < CandyCount
    /\ candy = "cursed" => current_level_number >= CURSED_FROM_LEVEL
    /\ levels' = IF candy = "none" THEN levels
                 ELSE [levels EXCEPT ![current_level].collected = @ + 1]
    /\ candies_collected' = IF candy = "none" THEN candies_collected
                            ELSE candies_collected + 1
    /\ health' = IF candy = "bonus" THEN Heal(health) ELSE health
    /\ active_powerups' =
          IF candy = "cursed"
          THEN AddPowerupList(active_powerups, "SPEED_BOOST", CURSE_DURATION)
          ELSE active_powerups
    /\ current_state' =
          IF OnGate(player_xy, current_level_number) /\ space_held
          THEN "CRASHED" ELSE current_state
    /\ UNCHANGED <<moveVars, candyVars>>
    /\ UNCHANGED worldVars
    /\ op' = "space"
    /\ arg' = [candy |-> candy, space_held |-> space_held]
    /\ ret' = FALSE
    /\ score' = IF scored THEN score + CandyScore(candy, double_points_active)
                ELSE score
    /\ UNCHANGED <<invincible_timer, shield_active, invisibility_active,
                   time_slow_active, double_points_active>>
    /\ UNCHANGED <<previous_state, tutorial_completed, tutorial,
                   saved_level, saved_tutorial, current_level_number,
                   current_level, night_mode_timer, night_mode_active,
                   player_xy>>
    /\ UNCHANGED <<ghostVars, featVars>>

\* The key press in the specifications that do not follow the score
SpaceKeyAt(candy, space_held) == SpacePress(candy, space_held, FALSE)

\* The key press with SPACE up at the last update and the score followed
SpaceKeyScored(candy) == SpacePress(candy, FALSE, TRUE)

\* The same with the key state of the last update showing SPACE up, as it is
\* unless the key went up and down again between two updates.
SpaceKey(candy) == SpaceKeyAt(candy, FALSE)

\* Level._create_house(x, y, width, height): the tiles it makes WALL or
\* HOUSE, i.e. all of the rectangle but the door in its bottom wall
HouseTile(t, x, y, width, height) ==
    /\ t.x \in x..(x + width - 1)
    /\ t.y \in y..(y + height - 1)
    /\ ~(t.x = x + (width \div 2) /\ t.y = y + height - 1)

\* TileMap.is_solid_tile on the tiles of the three houses of
\* Level._generate_level_1 and on its two street rows, which are not solid
Level1Solid(t) ==
    \/ HouseTile(t, 2, MAP_HEIGHT - 5, 4, 3)
    \/ HouseTile(t, 15, MAP_HEIGHT - 5, 3, 2)
    \/ HouseTile(t, 20, MAP_HEIGHT - 5, 3, 2)

\* x = tile_x * 32 + 16, y = tile_y * 32 + 16: the centre of a tile
TileCentre(tx, ty) ==
    [x |-> tx * TILE_SIZE + (TILE_SIZE \div 2),
     y |-> ty * TILE_SIZE + (TILE_SIZE \div 2)]

\* Positions random.randint(2, 28), random.randint(2, 18) can draw that are
\* followed up: a street tile next to the spawn point, a street tile far
\* from it, and a wall tile of the second house.
NightCandidates ==
    {TileCentre(13, MAP_HEIGHT - 6), TileCentre(22, MAP_HEIGHT - 7),
     TileCentre(15, MAP_HEIGHT - 5)}

NightSpotValid_AnyDistance(pos, pl) ==
    ~Level1Solid([x |-> pos.x \div TILE_SIZE, y |-> pos.y \div TILE_SIZE])

\* _spawn_night_ghosts: "position is valid and away from player" for a drawn
\* position pos and the player on pl (distance_to_player > 160, squared)
NightSpotValid(pos, pl) ==
    /\ ~Level1Solid([x |-> pos.x \div TILE_SIZE, y |-> pos.y \div TILE_SIZE])
    /\ (pos.x - pl.x) * (pos.x - pl.x) + (pos.y - pl.y) * (pos.y - pl.y)
          > NIGHT_GHOST_DISTANCE * NIGHT_GHOST_DISTANCE

\* _spawn_night_ghosts: what one `while attempts < 50` loop can end with: the
\* first valid position drawn, or nothing (<< >>) after 50 draws that were
\* all invalid.
SamplingOutcomes(pl) ==
    {<<pos>> : pos \in {c \in NightCandidates : NightSpotValid(c, pl)}}
        \cup (IF \E c \in NightCandidates : ~NightSpotValid(c, pl)
              THEN {<< >>} ELSE {})

\* _spawn_night_ghosts: the positions of the ghosts its NIGHT_GHOSTS loops
\* can append, in the order of appending
NightOutcomes(pl) ==
    {a \o b : a \in SamplingOutcomes(pl), b \in SamplingOutcomes(pl)}

\* The outcomes to follow in an update made at the current timer: before
\* the timer comes to the cycle's duration _spawn_night_ghosts is not called
NightDraws(pl) ==
    IF night_mode_timer + 1 >= DAY_NIGHT_CYCLE_DURATION
    THEN NightOutcomes(pl) \cup {<< >>} ELSE {<< >>}

\* GameManager.update in state PLAYING, i.e. _update_gameplay:
\*   _update_gameplay_entities  Player.update; the player ends its movement
\*                              on `spot`; the ghosts move, and `contact`
\*                              says whether one then overlaps the player
\*   _check_collisions          take_damage unless GHOST_REPEL is active;
\*                              _game_over when that leaves health <= 0
\*   _update_day_night_cycle    when night falls, _spawn_night_ghosts
\*                              appends ghosts on the positions `found`
\*   _check_level_completion    _complete_level: save progress, then
\*                              _show_victory or _advance_to_next_level
\* The four steps always run, whatever the earlier ones did.
PlayTickAt(spot, contact, found) ==
    LET n == current_level_number
        \* Player.update
        shield1 == HasPowerup(active_powerups, "SHIELD")
        timer1 == IF invincible_timer > 0 THEN invincible_timer - 1
                  ELSE invincible_timer
        powerups1 == UpdatePowerups(active_powerups)
        \* _check_collisions
        has_repel == HasPowerup(powerups1, "GHOST_REPEL")
        hit == contact /\ ~has_repel /\ CanBeDamaged(timer1, shield1)
        health1 == IF hit THEN health - 1 ELSE health
        timer2 == IF hit THEN INVINCIBILITY_DURATION ELSE timer1
        state1 == IF hit /\ health1 <= 0 THEN "GAME_OVER" ELSE current_state
        \* _update_day_night_cycle
        night == NightMode(current_level)
        ntimer1 == IF night THEN night_mode_timer ELSE night_mode_timer + 1
        falls == ~night /\ ntimer1 >= DAY_NIGHT_CYCLE_DURATION /\ ~night_mode_active
        nactive1 == night \/ night_mode_active \/ falls
        levels1 == IF falls
                   THEN [levels EXCEPT ![current_level].extra_ghosts = @ + Len(found)]
                   ELSE levels
        \* _check_level_completion
        done == candies_collected >= CANDIES_TO_COLLECT /\ NearHouse(spot)
        advance == done /\ ~IsFinalLevel(n)
    IN  /\ UpdatesGameplay(current_state)
        /\ current_level # 0
        /\ found \in (IF falls THEN NightOutcomes(spot) ELSE {<< >>})
        /\ shield_active' = shield1
        /\ invisibility_active' = HasPowerup(active_powerups, "INVISIBILITY")
        /\ time_slow_active' = HasPowerup(active_powerups, "TIME_SLOW")
        /\ double_points_active' = HasPowerup(active_powerups, "DOUBLE_POINTS")
        /\ active_powerups' = powerups1
        /\ health' = health1
        /\ invincible_timer' = timer2
        /\ current_state' = IF done /\ IsFinalLevel(n) THEN "VICTORY" ELSE state1
        /\ saved_level' = IF done THEN n + 1 ELSE saved_level
        /\ saved_tutorial' = IF done THEN tutorial_completed ELSE saved_tutorial
        /\ current_level_number' = IF advance THEN n + 1 ELSE n
        /\ current_level' = IF advance THEN n + 1 ELSE current_level
        /\ levels' = IF advance THEN LoadLevel(levels1, n + 1) ELSE levels1
        /\ player_xy' = IF advance THEN Spawn ELSE spot
        /\ candies_collected' = IF advance THEN 0 ELSE candies_collected
        /\ night_mode_timer' = IF advance THEN 0 ELSE ntimer1
        /\ night_mode_active' = IF advance THEN FALSE ELSE nactive1
        /\ UNCHANGED <<moveVars, candyVars>>
        /\ UNCHANGED worldVars
        /\ op' = "tick"
        /\ arg' = [spot |-> spot, night_ghosts |-> found]
        /\ ret' = FALSE
        /\ UNCHANGED <<previous_state, tutorial_completed, tutorial, score>>
        /\ UNCHANGED <<ghostVars, featVars>>

\* The same, for the first MaxNightTimer ticks of a level that has a
\* day/night cycle
PlayTick(spot, contact) ==
    /\ UpdatesGameplay(current_state)
    /\ NightMode(current_level) \/ night_mode_timer < MaxNightTimer
    /\ \E found \in NightDraws(spot) : PlayTickAt(spot, contact, found)

\* ---- the day/night cycle: a game that is played without ghost contact,
\*      paused, restarted and left for the main menu, until shortly after
\*      night has fallen
NightSpots == {Spawn, HouseEdge}

NextNight ==
    \/ levels[1].extra_ghosts < MaxNightGhosts /\ StartNewGame
    \/ LoadGame
    \/ EscapeKey
    \/ RestartLevel
    \/ ReturnToMainMenu
    \/ \E spot \in NightSpots : \E found \in NightDraws(spot) :
          /\ night_mode_timer < DAY_NIGHT_CYCLE_DURATION + MaxNightAfter
          /\ PlayTickAt(spot, FALSE, found)

\* ---- the tutorial: a first start without save file, new games, the
\*      tutorial running, being advanced and skipped, and the game being
\*      left and started again
TutorialSpots == {Spawn, HouseEdge}

NextTutorial ==
    \/ StartNewGame
    \/ \E spot \in TutorialSpots, skip \in BOOLEAN : TutorialTick(spot, skip)
    \/ SpaceKeyInTutorial
    \/ EscapeKey
    \/ ReturnToMainMenu
    \/ \E quit_button \in BOOLEAN : Relaunch(quit_button)

(***************************************************************************)
(* SpecialFeaturesManager with church puzzles, digging sites and traps (no *)
(* special candy is added).  The player is the one of the Player           *)
(* section, standing on player_xy.  List indices are 1-based here;         *)
(* active_puzzle / active_digging hold the index of the referenced object, *)
(* 0 for None.                                                             *)
(***************************************************************************)
Symbols == <<"cross", "candle", "bible", "angel">>
TargetOrder == <<"angel", "bible", "candle", "cross">>

\* Outcomes of random.shuffle(current_order) that are followed up: the
\* unshuffled order and the target order.
ShuffleOutcomes == {Symbols, TargetOrder}

\* Level._place_special_features: where a level puts its church puzzle and
\* its i-th digging site (i = 1, 2 in the level)
ChurchPuzzleLocation ==
    [x |-> 25 * TILE_SIZE + (TILE_SIZE \div 2),
     y |-> 10 * TILE_SIZE + (TILE_SIZE \div 2)]
DigSiteLocation(i) ==
    [x |-> (MAP_WIDTH - 6 + (i - 1) * 2) * TILE_SIZE + (TILE_SIZE \div 2),
     y |-> (3 + (i - 1)) * TILE_SIZE + (TILE_SIZE \div 2)]

\* Where the player stands when interacting: on the puzzle or on a site
FeatureSpots == {ChurchPuzzleLocation} \cup {DigSiteLocation(i) : i \in 1..MaxSites}

\* distance > radius, squared
Farther(a, b, radius) ==
    (a.x - b.x) * (a.x - b.x) + (a.y - b.y) * (a.y - b.y) > radius * radius

\* ChurchPuzzle.__init__ and CemeteryDigging.__init__
NewPuzzle(at, order) ==
    [pos |-> at, active |-> FALSE, completed |-> FALSE,
     current_order |-> order, selected_symbol |-> 0]
NewSite(at) ==
    [pos |-> at, active |-> FALSE, completed |-> FALSE,
     dig_progress |-> 0, dig_timer |-> 0]

\* ChurchPuzzle.interact / CemeteryDigging.interact return success exactly when
\* the player is in reach and the object is neither completed nor active;
\* they then set active.
PuzzleStarts(p, at) == ~Farther(at, p.pos, PUZZLE_RADIUS) /\ ~p.completed /\ ~p.active
SiteStarts(s, at) == ~Farther(at, s.pos, DIG_RADIUS) /\ ~s.completed /\ ~s.active

\* The least element of a non-empty set of list indices
First(hits) == CHOOSE i \in hits : \A j \in hits : i <= j

\* The first object of the list whose interact succeeds (0: none).  The loops
\* of handle_interactions skip completed objects and break on success.
FirstStartingPuzzle(puzzles, at) ==
    LET hits == {i \in 1..Len(puzzles) :
                   ~puzzles[i].completed /\ PuzzleStarts(puzzles[i], at)}
    IN  IF hits = {} THEN 0 ELSE First(hits)

FirstStartingSite(sites, at) ==
    LET hits == {i \in 1..Len(sites) :
                   ~sites[i].completed /\ SiteStarts(sites[i], at)}
    IN  IF hits = {} THEN 0 ELSE First(hits)

Swap(seq, i, j) == [seq EXCEPT ![i] = seq[j], ![j] = seq[i]]

\* The target order with its first two symbols exchanged: an order one
\* adjacent swap away from the solution.
SwappedOrder == Swap(TargetOrder, 1, 2)

\* Where the player stands when interacting in SpecPuzzle: on the puzzle, or
\* out of its reach on the first digging location
PuzzleSpots == {ChurchPuzzleLocation, DigSiteLocation(1)}

\* Orders a puzzle is created with or reshuffled to in SpecPuzzle
PuzzleOrders == ShuffleOutcomes \cup {SwappedOrder}

\* (mutant) handle_input that checks the solution before it moves the symbol
HandleInput_CheckFirst(p, keys, space_pressed, shuffled) ==
    IF ~p.active \/ p.completed
    THEN [obj |-> p, completed |-> FALSE]
    ELSE IF space_pressed /\ p.current_order = TargetOrder
    THEN [obj |-> [p EXCEPT !.completed = TRUE, !.active = FALSE],
          completed |-> TRUE]
    ELSE LET sel == p.selected_symbol
             moved ==
               IF keys = "left" /\ sel > 0
               THEN [p EXCEPT !.current_order = Swap(@, sel + 1, sel),
                              !.selected_symbol = sel - 1]
               ELSE IF keys = "right" /\ sel < Len(p.current_order) - 1
               THEN [p EXCEPT !.current_order = Swap(@, sel + 1, sel + 2),
                              !.selected_symbol = sel + 1]
               ELSE p
         IN  [obj |-> IF space_pressed THEN [moved EXCEPT !.current_order = shuffled]
                      ELSE moved,
              completed |-> FALSE]

\* ChurchPuzzle.handle_input; keys is "left", "right" or "none"; `shuffled` is
\* the outcome of the reshuffle after a wrong submission.
HandleInput(p, keys, space_pressed, shuffled) ==
    IF ~p.active \/ p.completed
    THEN [obj |-> p, completed |-> FALSE]
    ELSE LET sel == p.selected_symbol
             moved ==
               IF keys = "left"
               THEN IF sel > 0
                    THEN [p EXCEPT !.current_order = Swap(@, sel + 1, sel),
                                   !.selected_symbol = sel - 1]
                    ELSE p
               ELSE IF keys = "right"
               THEN IF sel < Len(p.current_order) - 1
                    THEN [p EXCEPT !.current_order = Swap(@, sel + 1, sel + 2),
                                   !.selected_symbol = sel + 1]
                    ELSE p
               ELSE p
         IN  IF space_pressed
             THEN IF moved.current_order = TargetOrder
                  THEN [obj |-> [moved EXCEPT !.completed = TRUE, !.active = FALSE],
                        completed |-> TRUE]
                  ELSE [obj |-> [moved EXCEPT !.current_order = shuffled],
                        completed |-> FALSE]
             ELSE [obj |-> moved, completed |-> FALSE]

\* CemeteryDigging.update
SiteUpdate(s) == IF s.dig_timer > 0 THEN [s EXCEPT !.dig_timer = @ - 1] ELSE s

\* (mutant) dig that does not wait for the cooldown
Dig_NoCooldown(s) ==
    IF ~s.active \/ s.completed
    THEN [obj |-> s, completed |-> FALSE]
    ELSE LET dug == [s EXCEPT !.dig_progress = @ + 1, !.dig_timer = DIG_COOLDOWN]
         IN  IF dug.dig_progress >= REQUIRED_DIGS
             THEN [obj |-> [dug EXCEPT !.completed = TRUE, !.active = FALSE],
                   completed |-> TRUE]
             ELSE [obj |-> dug, completed |-> FALSE]

\* CemeteryDigging.dig
Dig(s) ==
    IF ~s.active \/ s.completed \/ s.dig_timer > 0
    THEN [obj |-> s, completed |-> FALSE]
    ELSE LET dug == [s EXCEPT !.dig_progress = @ + 1, !.dig_timer = DIG_COOLDOWN]
         IN  IF dug.dig_progress >= REQUIRED_DIGS
             THEN [obj |-> [dug EXCEPT !.completed = TRUE, !.active = FALSE],
                   completed |-> TRUE]
             ELSE [obj |-> dug, completed |-> FALSE]

\* JackOLanternTrap.__init__
NewTrap(at) == [pos |-> at, triggered |-> FALSE, explosion_timer |-> 0]

\* Where the i-th trap is put: tile centres of one row, two tiles apart,
\* among those Level._place_special_features draws from
TrapLocation(i) ==
    [x |-> (MAP_WIDTH \div 2 + 2 * (i - 1)) * TILE_SIZE + (TILE_SIZE \div 2),
     y |-> 5 * TILE_SIZE + (TILE_SIZE \div 2)]

\* Points at a given distance below a trap
BelowTrap(i, dist) == [x |-> TrapLocation(i).x, y |-> TrapLocation(i).y + dist]

\* (mutant) a trap that only hits a player within the trigger radius
TrapStep_NarrowBlast(t, at) ==
    IF t.triggered
    THEN LET timer == t.explosion_timer + 1
         IN  [obj |-> [t EXCEPT !.explosion_timer = timer],
              exploded |-> timer >= EXPLOSION_DURATION,
              damages |-> timer >= EXPLOSION_DURATION
                          /\ ~Farther(at, t.pos, TRIGGER_RADIUS)]
    ELSE [obj |-> [t EXCEPT !.triggered = ~Farther(at, t.pos, TRIGGER_RADIUS)],
          exploded |-> FALSE, damages |-> FALSE]

\* JackOLanternTrap.update(player), the player standing on `at`: the trap
\* after the call, whether it exploded, and whether it called take_damage.
TrapStep(t, at) ==
    IF t.triggered
    THEN LET timer == t.explosion_timer + 1
         IN  [obj |-> [t EXCEPT !.explosion_timer = timer],
              exploded |-> timer >= EXPLOSION_DURATION,
              damages |-> timer >= EXPLOSION_DURATION
                          /\ ~Farther(at, t.pos, DAMAGE_RADIUS)]
    ELSE [obj |-> [t EXCEPT !.triggered = ~Farther(at, t.pos, TRIGGER_RADIUS)],
          exploded |-> FALSE, damages |-> FALSE]

\* The trap loop of SpecialFeaturesManager.update over the list ts, in list
\* order: every trap is updated, an exploded one is removed.  pl carries the
\* player's health and invincibility timer through the take_damage calls
\* and counts them; `shielded` is the player's shield_active flag.
RECURSIVE UpdateTraps(_, _, _, _)
UpdateTraps(ts, at, pl, shielded) ==
    IF ts = << >>
    THEN [traps |-> << >>, pl |-> pl]
    ELSE LET st == TrapStep(Head(ts), at)
             hit == st.damages /\ CanBeDamaged(pl.timer, shielded)
             pl1 == [health |-> IF hit THEN pl.health - 1 ELSE pl.health,
                     timer |-> IF hit THEN INVINCIBILITY_DURATION ELSE pl.timer,
                     calls |-> IF st.damages THEN pl.calls + 1 ELSE pl.calls]
             rest == UpdateTraps(Tail(ts), at, pl1, shielded)
         IN  [traps |-> IF st.exploded THEN rest.traps
                        ELSE <<st.obj>> \o rest.traps,
              pl |-> rest.pl]

\* SpecialFeaturesManager.__init__
FeaturesInit ==
    /\ church_puzzles = << >>
    /\ digging_sites = << >>
    /\ active_puzzle = 0
    /\ active_digging = 0
    /\ traps = << >>
    /\ traps_added = 0
    /\ space_presses = 0

\* SpecialFeaturesManager.add_church_puzzle at the level's puzzle location
AddChurchPuzzle(order) ==
    /\ Len(church_puzzles) < MaxPuzzles
    /\ church_puzzles' = Append(church_puzzles, NewPuzzle(ChurchPuzzleLocation, order))
    /\ UNCHANGED <<moveVars, candyVars>>
    /\ UNCHANGED worldVars
    /\ op' = "add_church_puzzle" /\ arg' = NoArg /\ ret' = FALSE
    /\ UNCHANGED <<digging_sites, active_puzzle, active_digging, traps,
                   traps_added, space_presses>>
    /\ UNCHANGED <<playerVars, ghostVars, gameVars>>

\* SpecialFeaturesManager.add_trap at the next trap location
AddTrap ==
    /\ traps' = Append(traps, NewTrap(TrapLocation(traps_added + 1)))
    /\ traps_added' = traps_added + 1
    /\ UNCHANGED <<moveVars, candyVars>>
    /\ UNCHANGED worldVars
    /\ op' = "add_trap" /\ arg' = NoArg /\ ret' = FALSE
    /\ UNCHANGED <<church_puzzles, digging_sites, active_puzzle, active_digging,
                   space_presses>>
    /\ UNCHANGED <<playerVars, ghostVars, gameVars>>

\* The player's position changes between two calls (Player.update moves the
\* player), `at` being where the player then stands.
MoveTo(at) ==
    /\ player_xy' = at
    /\ UNCHANGED <<moveVars, candyVars>>
    /\ UNCHANGED worldVars
    /\ op' = "move" /\ arg' = NoArg /\ ret' = FALSE
    /\ UNCHANGED <<playerVars, ghostVars, gameCtl, featVars>>

\* SpecialFeaturesManager.add_digging_site at the level's next site location
AddDiggingSite ==
    /\ Len(digging_sites) < MaxSites
    /\ digging_sites' = Append(digging_sites,
                               NewSite(DigSiteLocation(Len(digging_sites) + 1)))
    /\ UNCHANGED <<moveVars, candyVars>>
    /\ UNCHANGED worldVars
    /\ op' = "add_digging_site" /\ arg' = NoArg /\ ret' = FALSE
    /\ UNCHANGED <<church_puzzles, active_puzzle, active_digging, traps,
                   traps_added, space_presses>>
    /\ UNCHANGED <<playerVars, ghostVars, gameVars>>

\* SpecialFeaturesManager.handle_interactions(player), the player standing on `at`
HandleInteractions(at) ==
    LET pi == FirstStartingPuzzle(church_puzzles, at)
        si == FirstStartingSite(digging_sites, at)
    IN  /\ player_xy' = at
        /\ church_puzzles' = IF pi = 0 THEN church_puzzles
                             ELSE [church_puzzles EXCEPT ![pi].active = TRUE]
        /\ active_puzzle' = IF pi = 0 THEN active_puzzle ELSE pi
        /\ digging_sites' = IF si = 0 THEN digging_sites
                            ELSE [digging_sites EXCEPT ![si].active = TRUE]
        /\ active_digging' = IF si = 0 THEN active_digging ELSE si
        /\ UNCHANGED <<moveVars, candyVars>>
        /\ UNCHANGED worldVars
        /\ op' = "handle_interactions" /\ arg' = NoArg /\ ret' = FALSE
        /\ UNCHANGED <<traps, traps_added, space_presses>>
        /\ UNCHANGED <<playerVars, ghostVars, gameCtl>>

\* SpecialFeaturesManager.update(player, keys_pressed, space_pressed)
FeaturesUpdate(keys, space_pressed, shuffled) ==
    LET pz == IF active_puzzle = 0 THEN [completed |-> FALSE]
              ELSE HandleInput(church_puzzles[active_puzzle], keys,
                               space_pressed, shuffled)
        ticked == SiteUpdate(digging_sites[active_digging])
        dg == IF active_digging = 0 THEN [completed |-> FALSE]
              ELSE IF space_pressed THEN Dig(ticked)
              ELSE [obj |-> ticked, completed |-> FALSE]
        healed == IF pz.completed THEN Heal(health) ELSE health
        tr == UpdateTraps(traps, player_xy,
                          [health |-> healed, timer |-> invincible_timer,
                           calls |-> 0],
                          shield_active)
    IN  /\ church_puzzles' = IF active_puzzle = 0 THEN church_puzzles
                             ELSE [church_puzzles EXCEPT ![active_puzzle] = pz.obj]
        /\ active_puzzle' = IF pz.completed THEN 0 ELSE active_puzzle
        /\ score' = IF pz.completed THEN score + PUZZLE_SCORE ELSE score
        /\ health' = tr.pl.health
        /\ invincible_timer' = tr.pl.timer
        /\ traps' = tr.traps
        /\ digging_sites' = IF active_digging = 0 THEN digging_sites
                            ELSE [digging_sites EXCEPT ![active_digging] = dg.obj]
        /\ active_digging' = IF dg.completed THEN 0 ELSE active_digging
        /\ active_powerups' =
              IF dg.completed
              THEN AddPowerupList(active_powerups, "ZOMBIE_POWER", ZOMBIE_DURATION)
              ELSE active_powerups
        /\ space_presses' = IF space_pressed /\ space_presses < MaxSpacePresses
                            THEN space_presses + 1 ELSE space_presses
        /\ UNCHANGED <<moveVars, candyVars>>
        /\ UNCHANGED worldVars
        /\ op' = "features_update"
        /\ arg' = [keys |-> keys, space_pressed |-> space_pressed,
                    damage_calls |-> tr.pl.calls]
        /\ ret' = FALSE
        /\ UNCHANGED <<shield_active, invisibility_active, time_slow_active,
                       double_points_active, candies_collected, traps_added>>
        /\ UNCHANGED <<ghostVars, gameVars>>

\* CemeteryDigging.dig called on site i while the site is not being dug
\* (inactive or completed); returns completed.
DigCall(i) ==
    /\ i \in 1..Len(digging_sites)
    /\ ~digging_sites[i].active \/ digging_sites[i].completed
    /\ digging_sites' = [digging_sites EXCEPT ![i] = Dig(@).obj]
    /\ UNCHANGED <<moveVars, candyVars>>
    /\ UNCHANGED worldVars
    /\ op' = "dig" /\ arg' = NoArg /\ ret' = Dig(digging_sites[i]).completed
    /\ UNCHANGED <<church_puzzles, active_puzzle, active_digging, traps,
                   traps_added, space_presses>>
    /\ UNCHANGED <<playerVars, ghostVars, gameVars>>

\* Player.heal(1), called on its own
HealCall ==
    /\ health' = Heal(health)
    /\ UNCHANGED <<moveVars, candyVars>>
    /\ UNCHANGED worldVars
    /\ op' = "heal" /\ arg' = NoArg /\ ret' = FALSE
    /\ UNCHANGED <<invincible_timer, active_powerups, shield_active,
                   invisibility_active, time_slow_active, double_points_active,
                   candies_collected, score>>
    /\ UNCHANGED <<ghostVars, gameVars, featVars>>

(***************************************************************************)
(* TileMap.  self.tiles is a list of rows, tiles[y][x], indexed from 0.    *)
(* The sprites of a TileMap are left out.                                  *)
(***************************************************************************)
TileType == {"EMPTY", "STREET", "HOUSE", "WALL", "CHURCH", "GRAVE", "TREE",
             "DOOR", "CHURCH_DOOR", "CEMETERY_GATE", "TRASH_CAN"}

\* TileMap.__init__
NewTileMap(width, height) ==
    [width |-> width, height |-> height,
     tiles |-> [y \in 0..(height - 1) |-> [x \in 0..(width - 1) |-> "EMPTY"]]]

\* list[i] of Python on a list of length len kept as a function on
\* 0..len-1: a negative index counts from the end, an index outside
\* -len..len-1 raises IndexError.
PyIndex(list, len, i) ==
    IF 0 <= i /\ i < len THEN list[i]
    ELSE IF -len <= i /\ i < 0 THEN list[len + i]
    ELSE "IndexError"

\* get_tile without its bounds test: self.tiles[y][x] for any x, y
GetTile_Unchecked(m, x, y) ==
    IF y < -m.height \/ y >= m.height THEN "IndexError"
    ELSE PyIndex(PyIndex(m.tiles, m.height, y), m.width, x)

\* TileMap.get_tile
GetTile(m, x, y) ==
    IF 0 <= x /\ x < m.width /\ 0 <= y /\ y < m.height
    THEN PyIndex(PyIndex(m.tiles, m.height, y), m.width, x)
    ELSE "WALL"

\* TileMap.set_tile
SetTile(m, x, y, tile_type) ==
    IF 0 <= x /\ x < m.width /\ 0 <= y /\ y < m.height
    THEN [m EXCEPT !.tiles[y][x] = tile_type]
    ELSE m

\* TileMap.is_solid_tile
IsSolidTile(m, x, y) ==
    GetTile(m, x, y) \in {"WALL", "HOUSE", "CHURCH", "GRAVE", "TREE", "TRASH_CAN"}

\* TileMap.is_door_tile
IsDoorTile(m, x, y) ==
    GetTile(m, x, y) \in {"DOOR", "CHURCH_DOOR", "CEMETERY_GATE"}

(***************************************************************************)
(* Level.  What Level.__init__ generates: the map, the spawn and house     *)
(* points, the candies, the ghosts and the trap sites.  Easter eggs, the    *)
(* patrol routes of the ghosts and the fixed church and digging sites are   *)
(* left out.  The random module is represented by `rolls`:                  *)
(*   rolls.low        every random.random() comes out below (TRUE) or      *)
(*                    above (FALSE) the threshold it is compared with,      *)
(*   rolls.obstacles  the tiles the obstacle draws of _generate_level_1     *)
(*                    and _generate_level_2 land on,                        *)
(*   rolls.tiles      two tiles <<A, B>>: the first attempt of              *)
(*                    _place_candies draws A and every later one B; every   *)
(*                    attempt for the 1st, 3rd, ... ghost (trap site) draws *)
(*                    A and every attempt for the 2nd, 4th, ... draws B.    *)
(***************************************************************************)
MAX_CANDY_ATTEMPTS == 1000
MAX_GHOST_ATTEMPTS == 100
MAX_TRAP_ATTEMPTS == 30
CANDY_SPAWN_TILES == 2
GHOST_SPAWN_TILES == 5
TRAP_SPAWN_TILES == 3
GHOST_BASE == 3
GHOST_CAP == 8
CHURCH_LEVEL == 3
BOSS_LEVEL == 5
TRAP_LEVEL == 4

Min(a, b) == IF a <= b THEN a ELSE b

Rect(x, y, width, height) == (x..(x + width - 1)) \X (y..(y + height - 1))

\* dx == 0 or dx == width - 1 or dy == 0 or dy == height - 1
Border(x, y, width, height) ==
    {c \in Rect(x, y, width, height) :
        c[1] = x \/ c[1] = x + width - 1 \/ c[2] = y \/ c[2] = y + height - 1}

\* set_tile(x, y, tile_type) for every <<x, y>> of cells
Paint(m, cells, tile_type) ==
    [m EXCEPT !.tiles =
        [ty \in 0..(m.height - 1) |->
            [tx \in 0..(m.width - 1) |->
                IF <<tx, ty>> \in cells THEN tile_type ELSE m.tiles[ty][tx]]]]

\* Level._create_house
CreateHouse(m, x, y, width, height) ==
    LET walls == Paint(m, Border(x, y, width, height), "WALL")
        rooms == Paint(walls, Rect(x, y, width, height) \ Border(x, y, width, height),
                       "HOUSE")
    IN SetTile(rooms, x + (width \div 2), y + height - 1, "DOOR")

\* Level._create_church
CreateChurch(m, x, y, width, height) ==
    LET walls == Paint(m, Border(x, y, width, height), "WALL")
        nave == Paint(walls, Rect(x, y, width, height) \ Border(x, y, width, height),
                      "CHURCH")
    IN SetTile(nave, x + (width \div 2), y + height - 1, "CHURCH_DOOR")

\* Level._create_cemetery
CreateCemetery(m, x, y, width, height, rolls) ==
    LET fence == Paint(m, Border(x, y, width, height), "WALL")
        graves == IF rolls.low
                  THEN Paint(fence, Rect(x + 1, y + 1, width - 2, height - 2), "GRAVE")
                  ELSE fence
    IN SetTile(graves, x + (width \div 2), y + height - 1, "CEMETERY_GATE")

\* The tiles of an obstacle loop's draws that are EMPTY when drawn
EmptyDrawn(m, rolls) ==
    {c \in rolls.obstacles : GetTile(m, c[1], c[2]) = "EMPTY"}

\* An obstacle loop: its draws that land on EMPTY tiles get the obstacle
PaintObstacles(m, rolls, tile_type) == Paint(m, EmptyDrawn(m, rolls), tile_type)

\* Level._generate_level_1 (the map it makes): player house, main street and
\* side street, two more houses, church, cemetery, trees or trash cans
GenerateLevel1(m, rolls) ==
    PaintObstacles(
        CreateCemetery(
            CreateChurch(
                CreateHouse(
                    CreateHouse(
                        Paint(Paint(CreateHouse(m, 2, MAP_HEIGHT - 5, 4, 3),
                                    (1..(MAP_WIDTH - 2)) \X {MAP_HEIGHT - 7, MAP_HEIGHT - 6},
                                    "STREET"),
                              {10, 11} \X (5..(MAP_HEIGHT - 3)), "STREET"),
                        15, MAP_HEIGHT - 5, 3, 2),
                    20, MAP_HEIGHT - 5, 3, 2),
                25, 8, 4, 6),
            MAP_WIDTH - 8, 2, 6, 6, rolls),
        rolls, IF rolls.low THEN "TREE" ELSE "TRASH_CAN")

\* Level._generate_level_2: level 1, an alley and a lane, two houses, trash
\* cans
GenerateLevel2(m, rolls) ==
    PaintObstacles(
        CreateHouse(
            CreateHouse(
                Paint(Paint(GenerateLevel1(m, rolls), {7} \X (2..(MAP_HEIGHT - 9)),
                            "STREET"),
                      (12..24) \X {12}, "STREET"),
                5, 8, 3, 3),
            13, 5, 3, 3),
        rolls, "TRASH_CAN")

\* Level._generate_level_3: level 2, the larger church with its door, the
\* larger cemetery with its gate
GenerateLevel3(m, rolls) ==
    SetTile(
        CreateCemetery(
            SetTile(CreateChurch(GenerateLevel2(m, rolls), 23, 6, 6, 8),
                    25, 13, "CHURCH_DOOR"),
            MAP_WIDTH - 10, 1, 8, 8, rolls),
        MAP_WIDTH - 6, 8, "CEMETERY_GATE")

\* Level._generate_level_4: level 3, a diagonal street, two houses
GenerateLevel4(m, rolls) ==
    CreateHouse(
        CreateHouse(
            Paint(GenerateLevel3(m, rolls), {<<3 + i, 3 + i>> : i \in 0..7}, "STREET"),
            1, 1, 4, 4),
        MAP_WIDTH - 6, MAP_HEIGHT - 6, 4, 4)

\* The boss area of level 5, and the part of it that is cleared
BossArea == Rect(MAP_WIDTH - 12, 0, 12, 10)
BossOpen == {c \in BossArea : c[1] < MAP_WIDTH - 2 /\ c[2] < 8}

\* The boss area on the map of level 4: cleared, with gravestones on the
\* tiles outside the clearing that were EMPTY
BossArena(base, rolls) ==
    Paint(Paint(base, BossOpen, "EMPTY"),
          {c \in BossArea \ BossOpen : GetTile(base, c[1], c[2]) = "EMPTY" /\ rolls.low},
          "GRAVE")

\* Level._generate_level_5: level 4, the boss area and the walls around it
GenerateLevel5(m, rolls) ==
    Paint(
        Paint(
            Paint(BossArena(GenerateLevel4(m, rolls), rolls),
                  ((MAP_WIDTH - 12)..(MAP_WIDTH - 1)) \X {0}, "WALL"),
            ((MAP_WIDTH - 12)..(MAP_WIDTH - 2)) \X {9}, "WALL"),
        {MAP_WIDTH - 12, MAP_WIDTH - 1} \X (0..9), "WALL")

\* The calls of _create_house, _create_church and _create_cemetery that the
\* generators make, in the order of the calls
StructuresOf1 ==
    <<[kind |-> "house", x |-> 2, y |-> MAP_HEIGHT - 5, width |-> 4, height |-> 3],
      [kind |-> "house", x |-> 15, y |-> MAP_HEIGHT - 5, width |-> 3, height |-> 2],
      [kind |-> "house", x |-> 20, y |-> MAP_HEIGHT - 5, width |-> 3, height |-> 2],
      [kind |-> "church", x |-> 25, y |-> 8, width |-> 4, height |-> 6],
      [kind |-> "cemetery", x |-> MAP_WIDTH - 8, y |-> 2, width |-> 6, height |-> 6]>>
StructuresOf2 ==
    <<[kind |-> "house", x |-> 5, y |-> 8, width |-> 3, height |-> 3],
      [kind |-> "house", x |-> 13, y |-> 5, width |-> 3, height |-> 3]>>
StructuresOf3 ==
    <<[kind |-> "church", x |-> 23, y |-> 6, width |-> 6, height |-> 8],
      [kind |-> "cemetery", x |-> MAP_WIDTH - 10, y |-> 1, width |-> 8, height |-> 8]>>
StructuresOf4 ==
    <<[kind |-> "house", x |-> 1, y |-> 1, width |-> 4, height |-> 4],
      [kind |-> "house", x |-> MAP_WIDTH - 6, y |-> MAP_HEIGHT - 6, width |-> 4,
        height |-> 4]>>

\* The structure calls made for a level of generator g
StructureCalls(g) ==
    StructuresOf1
    \o (IF g >= 2 THEN StructuresOf2 ELSE << >>)
    \o (IF g >= 3 THEN StructuresOf3 ELSE << >>)
    \o (IF g >= 4 THEN StructuresOf4 ELSE << >>)

\* One structure call on map m
CreateStructure(m, s, rolls) ==
    IF s.kind = "house" THEN CreateHouse(m, s.x, s.y, s.width, s.height)
    ELSE IF s.kind = "church" THEN CreateChurch(m, s.x, s.y, s.width, s.height)
    ELSE CreateCemetery(m, s.x, s.y, s.width, s.height, rolls)

\* door_x, door_y of a structure call
DoorCell(s) == <<s.x + (s.width \div 2), s.y + s.height - 1>>

\* Level._generate_map: which generator a level number is handed to
Generator(level_number) ==
    IF level_number \in 1..4 THEN level_number ELSE 5

\* Level._generate_map
GenerateMap(level_number, rolls) ==
    LET grass == Paint(NewTileMap(MAP_WIDTH, MAP_HEIGHT),
                       Rect(0, 0, MAP_WIDTH, MAP_HEIGHT), "EMPTY")
        g == Generator(level_number)
    IN IF g = 1 THEN GenerateLevel1(grass, rolls)
       ELSE IF g = 2 THEN GenerateLevel2(grass, rolls)
       ELSE IF g = 3 THEN GenerateLevel3(grass, rolls)
       ELSE IF g = 4 THEN GenerateLevel4(grass, rolls)
       ELSE GenerateLevel5(grass, rolls)

\* self.ghost_count without its cap
GhostCount_Uncapped(level_number) == GHOST_BASE + level_number

\* self.ghost_count = min(3 + level_number, 8)
GhostCount(level_number) == Min(GHOST_BASE + level_number, GHOST_CAP)

\* x = random.randint(..) * TILE_SIZE + TILE_SIZE // 2, likewise y, for the
\* tile <<tx, ty>> drawn
Drawn(tile) == TileCentre(tile[1], tile[2])

\* _place_candies: "position is valid (not in walls, not too close to spawn)"
ValidCandy(m, spawn, tile) ==
    /\ ~IsSolidTile(m, Drawn(tile).x \div TILE_SIZE, Drawn(tile).y \div TILE_SIZE)
    /\ Abs(Drawn(tile).x - spawn.x) > TILE_SIZE * CANDY_SPAWN_TILES
    /\ Abs(Drawn(tile).y - spawn.y) > TILE_SIZE * CANDY_SPAWN_TILES

\* The test of _place_ghosts without its is_solid_tile part
ValidGhost_AnyTile(m, spawn, tile) ==
    Dist2(Drawn(tile), spawn)
        > (TILE_SIZE * GHOST_SPAWN_TILES) * (TILE_SIZE * GHOST_SPAWN_TILES)

\* _place_ghosts: the test of a drawn position (distance_to_spawn, squared)
ValidGhost(m, spawn, tile) ==
    /\ ~IsSolidTile(m, Drawn(tile).x \div TILE_SIZE, Drawn(tile).y \div TILE_SIZE)
    /\ Dist2(Drawn(tile), spawn)
          > (TILE_SIZE * GHOST_SPAWN_TILES) * (TILE_SIZE * GHOST_SPAWN_TILES)

\* _place_special_features: "position is valid" for a trap
ValidTrap(m, spawn, tile) ==
    /\ ~IsSolidTile(m, Drawn(tile).x \div TILE_SIZE, Drawn(tile).y \div TILE_SIZE)
    /\ Abs(Drawn(tile).x - spawn.x) > TILE_SIZE * TRAP_SPAWN_TILES
    /\ Abs(Drawn(tile).y - spawn.y) > TILE_SIZE * TRAP_SPAWN_TILES

\* The candy a valid draw makes: cursed from level 3 on when the first roll
\* is below 0.1, bonus when the (next) roll is below 0.15, normal otherwise.
PlacedCandy(level_number, tile, rolls) ==
    LET kind == IF level_number >= CURSED_FROM_LEVEL /\ rolls.low THEN "cursed"
                ELSE IF rolls.low THEN "bonus" ELSE "normal"
    IN [x |-> Drawn(tile).x, y |-> Drawn(tile).y, candy_type |-> kind,
        points |-> IF kind = "cursed" THEN CURSED_POINTS
                   ELSE IF kind = "bonus" THEN BONUS_POINTS ELSE NORMAL_POINTS]

\* Level._place_candies: the first attempt draws rolls.tiles[1], the later
\* ones rolls.tiles[2], until CANDIES_TO_COLLECT + 5 candies are placed or
\* max_attempts attempts are made.
PlaceCandies(m, level_number, spawn, rolls) ==
    LET first == IF ValidCandy(m, spawn, rolls.tiles[1])
                 THEN <<PlacedCandy(level_number, rolls.tiles[1], rolls)>>
                 ELSE << >>
        rest == IF ValidCandy(m, spawn, rolls.tiles[2])
                THEN Min(CandyCount - Len(first), MAX_CANDY_ATTEMPTS - 1)
                ELSE 0
    IN first \o [i \in 1..rest |-> PlacedCandy(level_number, rolls.tiles[2], rolls)]

\* The tile all attempts for the i-th ghost or trap site draw
TileFor(rolls, i) == rolls.tiles[2 - (i % 2)]

\* Level._place_ghosts, the loop over range(self.ghost_count): a ghost is
\* appended where its first valid draw is; after 100 invalid draws the loop
\* goes on to the next ghost.
RECURSIVE PlacePatrolGhosts(_, _, _, _, _)
PlacePatrolGhosts(m, spawn, rolls, i, count) ==
    IF i > count THEN << >>
    ELSE (IF ValidGhost(m, spawn, TileFor(rolls, i))
          THEN <<[x |-> Drawn(TileFor(rolls, i)).x, y |-> Drawn(TileFor(rolls, i)).y,
                  boss |-> FALSE]>>
          ELSE << >>)
         \o PlacePatrolGhosts(m, spawn, rolls, i + 1, count)

\* Level._place_ghosts
PlaceGhosts(m, level_number, spawn, rolls) ==
    PlacePatrolGhosts(m, spawn, rolls, 1, GhostCount(level_number))
    \o (IF level_number >= BOSS_LEVEL
        THEN <<[x |-> (MAP_WIDTH - 6) * TILE_SIZE, y |-> 4 * TILE_SIZE, boss |-> TRUE]>>
        ELSE << >>)

\* Level._place_special_features, the loop over range(2 + level_number // 2)
RECURSIVE PlaceTrapSites(_, _, _, _, _)
PlaceTrapSites(m, spawn, rolls, i, count) ==
    IF i > count THEN << >>
    ELSE (IF ValidTrap(m, spawn, TileFor(rolls, i))
          THEN <<Drawn(TileFor(rolls, i))>> ELSE << >>)
         \o PlaceTrapSites(m, spawn, rolls, i + 1, count)

\* How many trap sites a level asks for
TrapCount(level_number) ==
    IF level_number >= TRAP_LEVEL THEN 2 + (level_number \div 2) ELSE 0

\* Level.__init__
NewLevel(level_number, rolls) ==
    LET m == GenerateMap(level_number, rolls)
    IN [level_number |-> level_number,
        tile_map |-> m,
        spawn |-> Spawn,
        house |-> House,
        completed |-> FALSE,
        ghost_count |-> GhostCount(level_number),
        night_mode |-> NightMode(level_number),
        has_church_interior |-> level_number >= CHURCH_LEVEL,
        has_cemetery_boss |-> level_number >= BOSS_LEVEL,
        generator |-> Generator(level_number),
        candies |-> PlaceCandies(m, level_number, Spawn, rolls),
        ghosts |-> PlaceGhosts(m, level_number, Spawn, rolls),
        traps |-> PlaceTrapSites(m, Spawn, rolls, 1, TrapCount(level_number))]

\* No Level constructed yet
NoLevelObject == [level_number |-> 0]

\* The tiles the draws of SpecLevel land on: a street tile far from the spawn
\* point in x only, a grass tile far from it, a wall tile of a house, a tile
\* that is grass in level 1 and inside a house from level 2 on, and the
\* street tile next to the spawn point.
DrawnTiles ==
    {<<22, MAP_HEIGHT - 7>>, <<5, 5>>, <<15, MAP_HEIGHT - 5>>, <<14, 6>>,
     <<13, MAP_HEIGHT - 6>>}
ObstacleDraws == {{}, {<<5, 5>>}}
BuiltLevels == 1..MaxBuiltLevel

NewLevelCall(level_number, rolls) ==
    /\ level = NoLevelObject
    /\ level' = NewLevel(level_number, rolls)
    /\ UNCHANGED <<playerVars, moveVars, candyVars, ghostVars, gameVars, featVars,
                   butLevel>>
    /\ op' = "new_level"
    /\ arg' = [level_number |-> level_number]
    /\ ret' = FALSE

(***************************************************************************)
(* EasterEgg, with the player of the Player section standing on player_xy. *)
(* glow_timer, rect and the particles' motion are left out.                *)
(***************************************************************************)
INTERACTION_RADIUS == 200      \* self.interaction_radius = 20 px
EGG_POINTS == 25
EGG_PARTICLES == 15

\* The rewards Level._place_easter_eggs hands to EasterEgg
StashReward == "Extra candy stash (+25 points)"
HealthReward == "Health boost (+1 heart)"
PowerupRewards ==
    {"Candy magnet (10 seconds)", "Ghost repel (15 seconds)", "Speed boost (7 seconds)",
     "Invisibility (12 seconds)", "Time slow (8 seconds)", "Double points (10 seconds)",
     "Shield (15 seconds)"}
MysteryReward == "Mystery bonus!"

\* word in reward.lower(), for the words interact looks for
Contains(reward, word) ==
    CASE reward = "Extra candy stash (+25 points)" -> word \in {"points"}
      [] reward = "Health boost (+1 heart)" -> word \in {"health"}
      [] reward = "Candy magnet (10 seconds)" -> word \in {"magnet"}
      [] reward = "Ghost repel (15 seconds)" -> word \in {"repel"}
      [] reward = "Speed boost (7 seconds)" -> word \in {"speed"}
      [] reward = "Invisibility (12 seconds)" -> word \in {"invisibility"}
      [] reward = "Time slow (8 seconds)" -> word \in {"time slow"}
      [] reward = "Double points (10 seconds)" -> word \in {"double points", "points"}
      [] reward = "Shield (15 seconds)" -> word \in {"shield"}
      [] OTHER -> FALSE

\* EasterEgg.__init__
NewEasterEgg(x, y, egg_type, reward) ==
    [x |-> x, y |-> y, type |-> egg_type, reward |-> reward, activated |-> FALSE,
     visible |-> egg_type # "secret"]

NoEgg == [type |-> "none"]

\* The if/elif chain of interact: what is done to the player
Reward(reward) ==
    IF Contains(reward, "health") THEN [call |-> "heal"]
    ELSE IF Contains(reward, "magnet")
         THEN [call |-> "add_powerup", kind |-> "CANDY_MAGNET", duration |-> 600]
    ELSE IF Contains(reward, "repel")
         THEN [call |-> "add_powerup", kind |-> "GHOST_REPEL", duration |-> 900]
    ELSE IF Contains(reward, "speed")
         THEN [call |-> "add_powerup", kind |-> "SPEED_BOOST", duration |-> 420]
    ELSE IF Contains(reward, "invisibility")
         THEN [call |-> "add_powerup", kind |-> "INVISIBILITY", duration |-> 720]
    ELSE IF Contains(reward, "time slow")
         THEN [call |-> "add_powerup", kind |-> "TIME_SLOW", duration |-> 480]
    ELSE IF Contains(reward, "double points")
         THEN [call |-> "add_powerup", kind |-> "DOUBLE_POINTS", duration |-> 600]
    ELSE IF Contains(reward, "shield")
         THEN [call |-> "add_powerup", kind |-> "SHIELD", duration |-> 900]
    ELSE IF Contains(reward, "points") THEN [call |-> "score"]
    ELSE [call |-> "none"]

\* interact without its `if self.activated` test
Interact_Again(e, pl) ==
    IF Dist2(e, pl) > INTERACTION_RADIUS * INTERACTION_RADIUS
    THEN [egg |-> e, success |-> FALSE, message |-> "Get closer!", particles |-> 0,
          reward |-> [call |-> "none"]]
    ELSE [egg |-> [e EXCEPT !.activated = TRUE, !.visible = TRUE],
          success |-> TRUE, message |-> "Found Easter egg", particles |-> EGG_PARTICLES,
          reward |-> Reward(e.reward)]

\* EasterEgg.interact(player) with the player on pl: the egg afterwards, the
\* tuple returned (the message up to the reward's text, the number of
\* particles) and what is done to the player
Interact(e, pl) ==
    IF e.activated
    THEN [egg |-> e, success |-> FALSE, message |-> "Already found!", particles |-> 0,
          reward |-> [call |-> "none"]]
    ELSE IF Dist2(e, pl) > INTERACTION_RADIUS * INTERACTION_RADIUS
    THEN [egg |-> e, success |-> FALSE, message |-> "Get closer!", particles |-> 0,
          reward |-> [call |-> "none"]]
    ELSE [egg |-> [e EXCEPT !.activated = TRUE, !.visible = TRUE],
          success |-> TRUE, message |-> "Found Easter egg", particles |-> EGG_PARTICLES,
          reward |-> Reward(e.reward)]

\* Where the egg of SpecEgg lies and where the player stands: on the egg,
\* exactly 20 px from it, a tenth of a pixel farther, and at the spawn point.
EggSpot == TileCentre(14, MAP_HEIGHT - 6)
EggStops ==
    {EggSpot, [x |-> EggSpot.x + INTERACTION_RADIUS, y |-> EggSpot.y],
     [x |-> EggSpot.x + INTERACTION_RADIUS + 1, y |-> EggSpot.y], Spawn}

\* The (type, reward) pairs _place_easter_eggs can make
EggKinds ==
    ({"stash", "secret"} \X {StashReward})
    \cup ({"bonus", "secret"} \X {HealthReward})
    \cup ({"powerup", "secret"} \X PowerupRewards)
    \cup ({"puzzle", "dig", "secret"} \X {MysteryReward})

NewEggCall(kind) ==
    /\ egg = NoEgg
    /\ egg' = NewEasterEgg(EggSpot.x, EggSpot.y, kind[1], kind[2])
    /\ UNCHANGED <<playerVars, moveVars, candyVars, ghostVars, gameVars, featVars,
                   butEgg>>
    /\ op' = "new_egg" /\ arg' = NoArg /\ ret' = FALSE

InteractCall ==
    /\ egg # NoEgg
    /\ LET r == Interact(egg, player_xy)
       IN /\ egg' = r.egg
          /\ health' = IF r.reward.call = "heal" THEN Heal(health) ELSE health
          /\ active_powerups' =
                IF r.reward.call = "add_powerup"
                THEN AddPowerupList(active_powerups, r.reward.kind, r.reward.duration)
                ELSE active_powerups
          /\ score' = IF r.reward.call = "score" THEN score + EGG_POINTS ELSE score
          /\ ret' = [success |-> r.success, message |-> r.message,
                     particles |-> r.particles]
    /\ UNCHANGED <<invincible_timer, shield_active, invisibility_active,
                   time_slow_active, double_points_active, candies_collected>>
    /\ UNCHANGED <<moveVars, candyVars, ghostVars, gameVars, featVars, butEgg>>
    /\ op' = "interact" /\ arg' = NoArg

(***************************************************************************)
(* SaveManager and its readers in GameManager.  A file is missing, or      *)
(* holds bytes that are not UTF-8 text ("binary"), text that is not JSON   *)
(* ("garbage"), or a JSON document.  A JSON document is kept as the value  *)
(* json.load makes of it: [type |-> "dict", items |-> a function on its    *)
(* keys], [type |-> "list", items |-> a sequence], [type |-> "int", ...],  *)
(* [type |-> "str", ...], [type |-> "bool", ...] or [type |-> "null"].     *)
(* json.dump followed by json.load gives back the dicts, lists, ints and   *)
(* bools written here.  An open() that raises IOError is the input         *)
(* read_ok = FALSE (write_ok = FALSE) of the call.  An exception that      *)
(* leaves a function is its result [raised |-> the exception's name].      *)
(***************************************************************************)
MAX_HIGH_SCORES == 5

Missing == [exists |-> FALSE]
Binary == [exists |-> TRUE, text |-> "binary"]
Garbage == [exists |-> TRUE, text |-> "garbage"]
Json(value) == [exists |-> TRUE, text |-> "json", value |-> value]

PyInt(n) == [type |-> "int", n |-> n]
PyStr(st) == [type |-> "str", s |-> st]
PyBool(b) == [type |-> "bool", b |-> b]
PyNone == [type |-> "null"]
PyDict(items) == [type |-> "dict", items |-> items]
PyList(items) == [type |-> "list", items |-> items]

\* with open(file, 'r') as f: return json.load(f), inside `if
\* os.path.exists(file)` and `try ... except (IOError, json.JSONDecodeError)`
ReadJson(file, read_ok, default) ==
    IF ~file.exists THEN [raised |-> "none", value |-> default]
    ELSE IF ~read_ok THEN [raised |-> "none", value |-> default]
    ELSE IF file.text = "garbage" THEN [raised |-> "none", value |-> default]
    ELSE IF file.text = "binary" THEN [raised |-> "UnicodeDecodeError"]
    ELSE [raised |-> "none", value |-> file.value]

DefaultProgress ==
    PyDict([level |-> PyInt(1), score |-> PyInt(0), tutorial_completed |-> PyBool(FALSE)])

\* SaveManager.load_progress
LoadProgress(file, read_ok) == ReadJson(file, read_ok, DefaultProgress)

\* SaveManager.load_high_scores
LoadHighScores(file, read_ok) == ReadJson(file, read_ok, PyList(<< >>))

\* SaveManager.save_progress: the file afterwards
SaveProgress(file, level_no, score_no, completed, write_ok) ==
    IF write_ok
    THEN Json(PyDict([level |-> PyInt(level_no), score |-> PyInt(score_no),
                      tutorial_completed |-> PyBool(completed)]))
    ELSE file

\* save_data.get(key, default)
DictGet(v, key, default) ==
    IF v.type # "dict" THEN [raised |-> "AttributeError"]
    ELSE [raised |-> "none",
          value |-> IF key \in DOMAIN v.items THEN v.items[key] ELSE default]

\* GameManager._load_saved_progress: what self.tutorial.completed becomes
LoadSavedProgress(file, read_ok) ==
    LET data == LoadProgress(file, read_ok)
        got == DictGet(data.value, "tutorial_completed", PyBool(FALSE))
    IN IF data.raised # "none" THEN [raised |-> data.raised]
       ELSE IF got.raised # "none" THEN [raised |-> got.raised]
       ELSE [raised |-> "none", completed |-> got.value]

\* GameManager.load_game up to load_level: the level number and score read.
\* Level.__init__ computes min(3 + level_number, 8), a TypeError unless
\* level_number is a number.
LoadGameData(file, read_ok) ==
    LET data == LoadProgress(file, read_ok)
        lvl == DictGet(data.value, "level", PyInt(1))
        sc == DictGet(data.value, "score", PyInt(0))
    IN IF data.raised # "none" THEN [raised |-> data.raised]
       ELSE IF lvl.raised # "none" THEN [raised |-> lvl.raised]
       ELSE IF lvl.value.type \notin {"int", "bool"} THEN [raised |-> "TypeError"]
       ELSE [raised |-> "none", level |-> lvl.value, score |-> sc.value]

\* list.sort(key=lambda x: x["score"], reverse=True) by insertion: stable,
\* entries of equal score keep their order
RECURSIVE InsertByScore(_, _)
InsertByScore(sorted, e) ==
    IF sorted = << >> THEN <<e>>
    ELSE IF Head(sorted).score >= e.score
         THEN <<Head(sorted)>> \o InsertByScore(Tail(sorted), e)
         ELSE <<e>> \o sorted

RECURSIVE SortByScore(_)
SortByScore(list) ==
    IF list = << >> THEN << >>
    ELSE InsertByScore(SortByScore(SubSeq(list, 1, Len(list) - 1)), list[Len(list)])

\* scores[:n]
Prefix(list, n) == SubSeq(list, 1, Min(n, Len(list)))

\* save_high_score without the sort
KeepScores_Unsorted(list) == Prefix(list, MAX_HIGH_SCORES)

\* scores.sort(...); scores = scores[:5]
KeepScores(list) == Prefix(SortByScore(list), MAX_HIGH_SCORES)

\* SaveManager.save_high_score: the file afterwards, or the exception raised
\* (scores.append on what is no list; x["score"] on what is no dict)
SaveHighScore(file, name, score_no, read_ok, write_ok) ==
    LET read == LoadHighScores(file, read_ok)
        scores == Append(read.value.items, [name |-> name, score |-> score_no])
    IN IF read.raised # "none" THEN [raised |-> read.raised, file |-> file]
       ELSE IF read.value.type # "list"
            THEN [raised |-> "AttributeError", file |-> file]
       ELSE IF \E i \in 1..Len(read.value.items) :
                   "score" \notin DOMAIN read.value.items[i]
            THEN [raised |-> "TypeError", file |-> file]
       ELSE [raised |-> "none",
             file |-> IF write_ok THEN Json(PyList(KeepScores(scores))) ELSE file]

\* What save_data.txt is found to hold after something other than the game
\* wrote it
ForeignFiles ==
    {Missing, Binary, Garbage, Json(PyList(<< >>)), Json(PyInt(MaxScore)), Json(PyNone),
     Json(PyDict(<< >>)), Json(PyDict([level |-> PyStr("two")]))}
SaveLevels == 1..MAX_LEVEL
Scores == 0..MaxScore

\* save_data.txt is deleted, damaged or edited outside the game
ForeignWrite(file) ==
    /\ save_file' = file
    /\ UNCHANGED <<high_scores_file, submitted, io_failed>>
    /\ UNCHANGED <<playerVars, moveVars, candyVars, ghostVars, gameVars, featVars,
                   butSave>>
    /\ op' = "foreign_write" /\ arg' = NoArg /\ ret' = FALSE

SaveProgressCall(level_no, score_no, completed, write_ok) ==
    /\ save_file' = SaveProgress(save_file, level_no, score_no, completed, write_ok)
    /\ UNCHANGED <<high_scores_file, submitted, io_failed>>
    /\ UNCHANGED <<playerVars, moveVars, candyVars, ghostVars, gameVars, featVars,
                   butSave>>
    /\ op' = "save_progress"
    /\ arg' = [write_ok |-> write_ok]
    /\ ret' = [raised |-> "none"]

LoadProgressCall(read_ok) ==
    /\ UNCHANGED <<playerVars, moveVars, candyVars, ghostVars, gameVars, featVars,
                   worldVars>>
    /\ op' = "load_progress"
    /\ arg' = [read_ok |-> read_ok]
    /\ ret' = LoadProgress(save_file, read_ok)

\* GameManager.__init__, its last statement
LoadSavedProgressCall(read_ok) ==
    /\ UNCHANGED <<playerVars, moveVars, candyVars, ghostVars, gameVars, featVars,
                   worldVars>>
    /\ op' = "_load_saved_progress"
    /\ arg' = [read_ok |-> read_ok]
    /\ ret' = LoadSavedProgress(save_file, read_ok)

\* GameManager.load_game, its reading of the save file
LoadGameDataCall(read_ok) ==
    /\ UNCHANGED <<playerVars, moveVars, candyVars, ghostVars, gameVars, featVars,
                   worldVars>>
    /\ op' = "load_game_data"
    /\ arg' = [read_ok |-> read_ok]
    /\ ret' = LoadGameData(save_file, read_ok)

LoadHighScoresCall(read_ok) ==
    /\ UNCHANGED <<playerVars, moveVars, candyVars, ghostVars, gameVars, featVars,
                   worldVars>>
    /\ op' = "load_high_scores"
    /\ arg' = [read_ok |-> read_ok]
    /\ ret' = LoadHighScores(high_scores_file, read_ok)

SaveHighScoreCall(score_no, read_ok, write_ok) ==
    /\ Len(submitted) < MaxSubmitted
    /\ LET r == SaveHighScore(high_scores_file, "Champion", score_no, read_ok, write_ok)
       IN /\ high_scores_file' = r.file
          /\ ret' = [raised |-> r.raised]
    /\ submitted' = Append(submitted, score_no)
    /\ io_failed' = io_failed
                      \cup (IF high_scores_file.exists /\ ~read_ok THEN {"read"} ELSE {})
                      \cup (IF ~write_ok THEN {"write"} ELSE {})
    /\ UNCHANGED save_file
    /\ UNCHANGED <<playerVars, moveVars, candyVars, ghostVars, gameVars, featVars,
                   butSave>>
    /\ op' = "save_high_score"
    /\ arg' = [score |-> score_no, read_ok |-> read_ok, write_ok |-> write_ok]

(***************************************************************************)
(* GameManager._update_gameplay with its calls as separate steps, for a    *)
(* level with the one ghost of the Ghost section and a player who moves    *)
(* along the ghost's street row (player_x is player.x).  As in the         *)
(* GameManager section the movement of Player.update ends on a position    *)
(* handed in, the special features manager is empty, no candy magnet is    *)
(* active and velocity and score are not followed.  Every step runs in     *)
(* every call, whatever the earlier steps did to current_state.            *)
(***************************************************************************)
PLAYER_RADIUS == 120
GHOST_RADIUS == 100
PX == 10                       \* tenths of a pixel in a pixel

\* The statements of _update_gameplay and, for its first,
\* _update_gameplay_entities, in the order they are written
UpdateOrder_GhostsFirst ==
    <<"level_update", "player_update", "features_update", "check_collisions",
      "day_night_cycle", "level_completion">>

UpdateOrder ==
    <<"player_update", "level_update", "features_update", "check_collisions",
      "day_night_cycle", "level_completion">>

\* The step that is next in the call, and the record of steps after it
IsNext(step) == UpdateOrder[Len(tick_steps) + 1] = step
StepDone(step) ==
    IF Len(tick_steps) + 1 = Len(UpdateOrder) THEN << >> ELSE Append(tick_steps, step)

\* GameManager.update calls _update_gameplay in state PLAYING only
CallRuns ==
    tick_steps = << >> =>
        /\ current_state = "PLAYING" /\ current_level # 0
        /\ updates_run < MaxUpdates

\* self.player.rect.colliderect(ghost.rect) for two squares on one row whose
\* centres are int(x) of the positions
Collides(px, gx) == Abs((px \div PX) - (gx \div PX)) < (PLAYER_RADIUS + GHOST_RADIUS) \div PX

\* self.player.update(self.keys_pressed, self.current_level.tile_map)
TickPlayerUpdate(px) ==
    /\ IsNext("player_update") /\ CallRuns
    /\ PlayerUpdateState
    /\ player_x' = px
    /\ tick_steps' = StepDone("player_update") /\ UNCHANGED updates_run
    /\ UNCHANGED <<health, candies_collected, score>>
    /\ UNCHANGED <<ghost_x, ghost_vx, ghost_state, chase_timer, current_patrol_target,
                   chase_run>>
    /\ UNCHANGED <<moveVars, candyVars, gameVars, featVars, butTick>>
    /\ op' = "player_update" /\ arg' = NoArg /\ ret' = FALSE

\* chase_events = self.current_level.update(self.player): Ghost.update reads
\* player.x and player.invisibility_active as they are now
TickLevelUpdate ==
    LET dist == Abs(ghost_x - player_x)
        dist_start == Abs(ghost_x - GhostStartX)
        ns == GhostNextState(ghost_state, chase_timer, dist, dist_start,
                             invisibility_active)
        mv == GhostMove(ns.state, ghost_x, ghost_vx, current_patrol_target,
                        player_x, time_slow_active)
        new_x == ghost_x + mv.vx
    IN  /\ IsNext("level_update") /\ CallRuns
        /\ ghost_state' = ns.state
        /\ chase_timer' = ns.timer
        /\ ghost_vx' = mv.vx
        /\ current_patrol_target' = mv.idx
        /\ ghost_x' = IF GhostWallCollision(new_x) THEN ghost_x ELSE new_x
        /\ chase_run' = IF ns.state = "chase" THEN chase_run + 1 ELSE 0
        /\ tick_steps' = StepDone("level_update") /\ UNCHANGED updates_run
        /\ UNCHANGED <<playerVars, player_x, moveVars, candyVars, gameVars, featVars,
                       butTick>>
        /\ op' = "level_update" /\ arg' = NoArg /\ ret' = ns.started

\* self.special_features.update(...) on the empty manager, camera.update and
\* the space-key bookkeeping
TickFeaturesUpdate ==
    /\ IsNext("features_update") /\ CallRuns
    /\ tick_steps' = StepDone("features_update") /\ UNCHANGED updates_run
    /\ UNCHANGED <<playerVars, ghostVars, moveVars, candyVars, gameVars, featVars,
                   butTick>>
    /\ op' = "features_update_empty" /\ arg' = NoArg /\ ret' = FALSE

\* self._check_collisions()
TickCheckCollisions ==
    LET contact == Collides(player_x, ghost_x)
        has_repel == HasPowerup(active_powerups, "GHOST_REPEL")
        hit == contact /\ ~has_repel /\ CanBeDamaged(invincible_timer, shield_active)
    IN  /\ IsNext("check_collisions") /\ CallRuns
        /\ health' = IF hit THEN health - 1 ELSE health
        /\ invincible_timer' = IF hit THEN INVINCIBILITY_DURATION ELSE invincible_timer
        /\ current_state' = IF hit /\ health - 1 <= 0 THEN "GAME_OVER" ELSE current_state
        /\ tick_steps' = StepDone("check_collisions") /\ UNCHANGED updates_run
        /\ UNCHANGED <<active_powerups, shield_active, invisibility_active,
                       time_slow_active, double_points_active, candies_collected,
                       score>>
        /\ UNCHANGED <<previous_state, tutorial_completed, tutorial, saved_level,
                       saved_tutorial, current_level_number, levels, current_level,
                       night_mode_timer, night_mode_active, player_xy>>
        /\ UNCHANGED <<ghostVars, moveVars, candyVars, featVars, butTick>>
        /\ op' = "check_collisions" /\ arg' = NoArg /\ ret' = hit

\* self._update_day_night_cycle(), before night falls
TickDayNightCycle ==
    LET night == NightMode(current_level)
    IN  /\ IsNext("day_night_cycle") /\ CallRuns
        /\ night_mode_timer' = IF night THEN night_mode_timer ELSE night_mode_timer + 1
        /\ night_mode_active' = (night \/ night_mode_active)
        /\ tick_steps' = StepDone("day_night_cycle") /\ UNCHANGED updates_run
        /\ UNCHANGED <<current_state, previous_state, tutorial_completed, tutorial,
                       saved_level, saved_tutorial, current_level_number, levels,
                       current_level, player_xy>>
        /\ UNCHANGED <<playerVars, ghostVars, moveVars, candyVars, featVars, butTick>>
        /\ op' = "day_night_cycle" /\ arg' = NoArg /\ ret' = FALSE

\* self._check_level_completion(), for a player on the ghost's row: the row
\* is more than 1.5 tiles from the house point, check_level_completion
\* returns False
TickLevelCompletion ==
    /\ IsNext("level_completion") /\ CallRuns
    /\ tick_steps' = StepDone("level_completion")
    /\ updates_run' = updates_run + 1
    /\ UNCHANGED <<playerVars, ghostVars, moveVars, candyVars, gameVars, featVars,
                   butTick>>
    /\ op' = "level_completion" /\ arg' = NoArg /\ ret' = FALSE

\* Where the player's movement ends in SpecTick: at the detection radius from
\* the ghost's start, and a pixel inside the reach of a ghost standing there
ContactStop == GhostStartX - (PLAYER_RADIUS + GHOST_RADIUS) + PX
TickStops == {NearStop, ContactStop}
TickKinds == {"INVISIBILITY", "GHOST_REPEL", "ZOMBIE_POWER"}

(***************************************************************************)
(* Player.update on a TileMap: the player's position is player_xy, the map *)
(* is tile_map.  Positions and velocities are on the grid of tenths of a   *)
(* pixel, int(c // TILE_SIZE) is the floor of the quotient.                *)
(***************************************************************************)
\* int(corner // TILE_SIZE)
TileOf(c) == c \div TILE_SIZE

\* The corners list of Player._check_wall_collision
Corners(x, y, radius) ==
    {[x |-> x - radius, y |-> y - radius], [x |-> x + radius, y |-> y - radius],
     [x |-> x - radius, y |-> y + radius], [x |-> x + radius, y |-> y + radius]}

\* Player._check_wall_collision(x, y, tile_map)
PlayerWallCollision(m, x, y) ==
    \E c \in Corners(x, y, PLAYER_RADIUS) : IsSolidTile(m, TileOf(c.x), TileOf(c.y))

\* (mutant) the move along y tested at the position the move along x was
\* tried from
ResolveMove_YAtOldX(m, pos, v) ==
    LET new_x == pos.x + v.vx
        new_y == pos.y + v.vy
        blocked_x == PlayerWallCollision(m, new_x, pos.y)
        blocked_y == PlayerWallCollision(m, pos.x, new_y)
    IN  [x |-> IF blocked_x THEN pos.x ELSE new_x,
         y |-> IF blocked_y THEN pos.y ELSE new_y,
         blocked_x |-> blocked_x, blocked_y |-> blocked_y]

\* "Calculate new position" and "Check collision with walls" of
\* Player.update: the position after the update and what the two calls of
\* _check_wall_collision returned
ResolveMove(m, pos, v) ==
    LET new_x == pos.x + v.vx
        new_y == pos.y + v.vy
        blocked_x == PlayerWallCollision(m, new_x, pos.y)
        x == IF blocked_x THEN pos.x ELSE new_x
        blocked_y == PlayerWallCollision(m, x, new_y)
    IN  [x |-> x, y |-> IF blocked_y THEN pos.y ELSE new_y,
         blocked_x |-> blocked_x, blocked_y |-> blocked_y]

\* TileMap(width, height)
NewTileMapCall(width, height) ==
    /\ tile_map' = NewTileMap(width, height)
    /\ UNCHANGED <<playerVars, moveVars, candyVars, ghostVars, gameVars, featVars,
                   butTileMap>>
    /\ op' = "new_tile_map" /\ arg' = NoArg /\ ret' = FALSE

\* Player(x, y) for a player that has not been updated yet; a level puts
\* its player on open ground
NewPlayerAt(at) ==
    /\ op \in {"new_tile_map", "set_tile", "new_ghost"}
    /\ ~PlayerWallCollision(tile_map, at.x, at.y)
    /\ player_xy' = at
    /\ UNCHANGED <<playerVars, moveVars, candyVars, ghostVars, gameCtl, featVars,
                   worldVars>>
    /\ op' = "new_player" /\ arg' = NoArg /\ ret' = FALSE

\* Player.update(keys_pressed, tile_map); arg is the velocity the move was
\* tried with
PlayerUpdateOnMap(keys) ==
    LET v == MoveVelocity([vx |-> player_vx, vy |-> player_vy], keys,
                          active_powerups, FALSE, FALSE)
        to == ResolveMove(tile_map, player_xy, v)
    IN  /\ map_updates < MaxMapUpdates
        /\ PlayerUpdateState
        /\ player_xy' = [x |-> to.x, y |-> to.y]
        /\ player_vx' = IF to.blocked_x THEN 0 ELSE v.vx
        /\ player_vy' = IF to.blocked_y THEN 0 ELSE v.vy
        /\ map_updates' = map_updates + 1
        /\ UNCHANGED <<health, candies_collected, score>>
        /\ UNCHANGED <<candyVars, ghostVars, gameCtl, featVars, tile_map, map_ghost,
                       butWalk>>
        /\ op' = "update_on_map" /\ arg' = v /\ ret' = FALSE

\* The map of SpecWalk is an empty grid or that grid with a house on the
\* tile below and right of the first.  The player starts on the first tile
\* two tenths of a pixel from the house's column and row, or on the tile
\* left of the house two tenths from it, or on the first tile one tenth
\* from the left and upper edges of the map.
WalkHouse == [x |-> 1, y |-> 1]
WalkStarts ==
    {[x |-> TILE_SIZE - PLAYER_RADIUS - 2, y |-> TILE_SIZE - PLAYER_RADIUS - 2],
     [x |-> TILE_SIZE - PLAYER_RADIUS - 2, y |-> TILE_SIZE + PLAYER_RADIUS + 2],
     [x |-> PLAYER_RADIUS + 1, y |-> PLAYER_RADIUS + 1]}
WalkKeys ==
    {k \in KeySets : ~(k.left /\ k.right) /\ ~(k.up /\ k.down)
                        /\ (k.left <=> k.up)}

(***************************************************************************)
(* Ghost.update on a TileMap, for a ghost with a position in the plane     *)
(* (map_ghost).  Distances are compared as the code compares them; a       *)
(* velocity component is cut to the grid of tenths towards zero.           *)
(***************************************************************************)
RECURSIVE SqrtIn(_, _, _)
SqrtIn(n, lo, hi) ==
    IF lo = hi THEN lo
    ELSE LET mid == (lo + hi + 1) \div 2
         IN  IF mid * mid <= n THEN SqrtIn(n, mid, hi) ELSE SqrtIn(n, lo, mid - 1)

RECURSIVE SqrtAbove(_, _)
SqrtAbove(n, h) == IF h * h > n THEN h ELSE SqrtAbove(n, 2 * h)

\* The whole part of math.sqrt(n), and math.sqrt(n) rounded up
FloorSqrt(n) == SqrtIn(n, 0, SqrtAbove(n, 1))
CeilSqrt(n) == IF FloorSqrt(n) * FloorSqrt(n) = n THEN FloorSqrt(n) ELSE FloorSqrt(n) + 1

\* n * math.sqrt(s2) <= q for n > 0, without the products n * n * s2 and
\* q * q, which leave the range of the model's integers
Fits(n, q, s2) ==
    LET a == q \div n
        b == q % n
        f == FloorSqrt(s2)
    IN  IF f > a THEN FALSE
        ELSE IF f < a THEN TRUE
        ELSE s2 <= a * a + (2 * a * b * n + b * b) \div (n * n)

\* (d / distance) * speed for a component d of a vector of squared length
\* s2 > 0
Toward(d, s2, speed) ==
    Sign(d) * (CHOOSE n \in 0..speed :
                 /\ n = 0 \/ Fits(n, Abs(d) * speed, s2)
                 /\ ~Fits(n + 1, Abs(d) * speed, s2))

\* Ghost.__init__(x, y, patrol_points)
NewGhost(x, y, patrol_points) ==
    [x |-> x, y |-> y, start_x |-> x, start_y |-> y, vx |-> 0, vy |-> 0,
     state |-> "patrol",
     patrol_points |-> IF patrol_points = << >> THEN <<[x |-> x, y |-> y]>>
                       ELSE patrol_points,
     current_patrol_target |-> 0, chase_timer |-> 0]

NoMapGhost == [state |-> "none"]

\* _chase_player, _return_to_start and _patrol in the plane: the velocity
\* and the patrol index after the movement step of state `state`
GhostMoveOnMap(state, g, pl, slowed) ==
    LET to == IF state = "chase" THEN pl
              ELSE IF state = "return" THEN [x |-> g.start_x, y |-> g.start_y]
              ELSE g.patrol_points[g.current_patrol_target + 1]
        dx == to.x - g.x
        dy == to.y - g.y
        s2 == dx * dx + dy * dy
        speed == SlowedSpeed(IF state = "chase" THEN GHOST_CHASE_SPEED ELSE GHOST_SPEED,
                             slowed)
        aimed == [vx |-> Toward(dx, s2, speed), vy |-> Toward(dy, s2, speed),
                  idx |-> g.current_patrol_target]
    IN  IF state = "chase"
        THEN IF s2 > 0 THEN aimed
             ELSE [vx |-> g.vx, vy |-> g.vy, idx |-> g.current_patrol_target]
        ELSE IF state = "return"
        THEN IF s2 > 0 THEN aimed
             ELSE [vx |-> 0, vy |-> 0, idx |-> g.current_patrol_target]
        ELSE IF s2 < WAYPOINT_RADIUS * WAYPOINT_RADIUS
             THEN [vx |-> g.vx, vy |-> g.vy,
                   idx |-> (g.current_patrol_target + 1) % Len(g.patrol_points)]
             ELSE aimed

\* Ghost._check_wall_collision(x, y, tile_map)
GhostMapCollision(m, x, y) == IsSolidTile(m, TileOf(x), TileOf(y))

\* (mutant) "Apply movement" with the move along y made untested
GhostResolveMove_XOnly(m, g, v) ==
    LET new_x == g.x + v.vx
        new_y == g.y + v.vy
    IN  [x |-> IF ~GhostMapCollision(m, new_x, g.y) THEN new_x ELSE g.x,
         y |-> new_y]

\* "Apply movement" and the collision check of Ghost.update
GhostResolveMove(m, g, v) ==
    LET new_x == g.x + v.vx
        new_y == g.y + v.vy
        x == IF ~GhostMapCollision(m, new_x, g.y) THEN new_x ELSE g.x
    IN  [x |-> x,
         y |-> IF ~GhostMapCollision(m, x, new_y) THEN new_y ELSE g.y]

\* Ghost(x, y, patrol_points) on a tile that is not solid, as _place_ghosts
\* and the night spawn choose it
NewGhostCall(at, patrol_points) ==
    /\ op \in {"new_tile_map", "set_tile"}
    /\ ~GhostMapCollision(tile_map, at.x, at.y)
    /\ map_ghost' = NewGhost(at.x, at.y, patrol_points)
    /\ UNCHANGED <<playerVars, moveVars, candyVars, ghostVars, gameVars, featVars,
                   tile_map, map_updates, butWalk>>
    /\ op' = "new_ghost" /\ arg' = NoArg /\ ret' = FALSE

\* ghost.update(player, tile_map) for a player standing at pl with the
\* invisibility flag `invisible`; `counted` says that the updates are
\* counted in map_updates and followed up to MaxMapUpdates, otherwise
\* map_updates holds their number modulo 2
GhostUpdateStep(pl, invisible, counted) ==
    LET g == map_ghost
        pos == [x |-> g.x, y |-> g.y]
        dist == CeilSqrt(Dist2(pos, pl))
        dist_start == FloorSqrt(Dist2(pos, [x |-> g.start_x, y |-> g.start_y]))
        ns == GhostNextState(g.state, g.chase_timer, dist, dist_start, invisible)
        mv == GhostMoveOnMap(ns.state, g, pl, time_slow_active)
        to == GhostResolveMove(tile_map, g, mv)
    IN  /\ map_ghost # NoMapGhost
        /\ counted => map_updates < MaxMapUpdates
        /\ map_ghost' = [g EXCEPT !.state = ns.state, !.chase_timer = ns.timer,
                                  !.vx = mv.vx, !.vy = mv.vy,
                                  !.current_patrol_target = mv.idx,
                                  !.x = to.x, !.y = to.y]
        /\ map_updates' = IF counted THEN map_updates + 1 ELSE (map_updates + 1) % 2
        /\ UNCHANGED <<playerVars, moveVars, candyVars, ghostVars, gameVars, featVars,
                       tile_map, butWalk>>
        /\ op' = "ghost_update_on_map"
        /\ arg' = [player |-> pl, invisible |-> invisible]
        /\ ret' = ns.started

GhostUpdateOnMap(pl, invisible) == GhostUpdateStep(pl, invisible, TRUE)

\* The map of SpecHaunt has a house on the tile below and right of the
\* first.  The ghost starts a pixel from the house's column and row, or a
\* pixel from the house on the tile left of it, or a pixel from the left and
\* upper edges of the map; its patrol leads from its start to the middle of
\* the house or to a point off the map.  The player stands on the third tile
\* of the first row or on the last.
HauntStarts ==
    {[x |-> TILE_SIZE - PX, y |-> TILE_SIZE - PX],
     [x |-> TILE_SIZE - PX, y |-> TILE_SIZE + PX],
     [x |-> PX, y |-> PX]}
HauntTargets ==
    {[x |-> TILE_SIZE + TILE_SIZE \div 2, y |-> TILE_SIZE + TILE_SIZE \div 2],
     [x |-> -TILE_SIZE, y |-> -TILE_SIZE]}
HauntStops ==
    {[x |-> 2 * TILE_SIZE + TILE_SIZE \div 2, y |-> TILE_SIZE \div 2],
     [x |-> HauntWidth * TILE_SIZE - TILE_SIZE \div 2, y |-> TILE_SIZE \div 2]}

WorldInit ==
    /\ tile_map = NewTileMap(GridWidth, GridHeight)
    /\ tick_steps = << >> /\ updates_run = 0
    /\ map_updates = 0
    /\ map_ghost = NoMapGhost
    /\ since_loss = INVINCIBILITY_DURATION
    /\ level = NoLevelObject
    /\ egg = NoEgg
    /\ save_file = Missing
    /\ high_scores_file = Missing
    /\ submitted = << >>
    /\ io_failed = {}

\* The coordinates and tile types the callers of SpecTiles hand in.
TileColumns == (0 - TileMargin)..(GridWidth + TileMargin - 1)
TileRows == (0 - TileMargin)..(GridHeight + TileMargin - 1)
TileDraws == {"EMPTY", "HOUSE", "DOOR"}

NonEmptyCells(m) ==
    {c \in (0..(m.width - 1)) \X (0..(m.height - 1)) : m.tiles[c[2]][c[1]] # "EMPTY"}

SetTileCall(x, y, tile_type) ==
    /\ tile_map' = SetTile(tile_map, x, y, tile_type)
    /\ UNCHANGED <<playerVars, moveVars, candyVars, ghostVars, gameVars, featVars,
                   butTileMap>>
    /\ op' = "set_tile"
    /\ arg' = [x |-> x, y |-> y, tile_type |-> tile_type]
    /\ ret' = FALSE

GetTileCall(x, y) ==
    /\ UNCHANGED <<playerVars, moveVars, candyVars, ghostVars, gameVars, featVars,
                   worldVars>>
    /\ op' = "get_tile"
    /\ arg' = [x |-> x, y |-> y]
    /\ ret' = GetTile(tile_map, x, y)

IsSolidTileCall(x, y) ==
    /\ UNCHANGED <<playerVars, moveVars, candyVars, ghostVars, gameVars, featVars,
                   worldVars>>
    /\ op' = "is_solid_tile"
    /\ arg' = [x |-> x, y |-> y]
    /\ ret' = IsSolidTile(tile_map, x, y)

IsDoorTileCall(x, y) ==
    /\ UNCHANGED <<playerVars, moveVars, candyVars, ghostVars, gameVars, featVars,
                   worldVars>>
    /\ op' = "is_door_tile"
    /\ arg' = [x |-> x, y |-> y]
    /\ ret' = IsDoorTile(tile_map, x, y)

CallInit == op = "init" /\ arg = NoArg /\ ret = FALSE

\* No save file: SaveManager.load_progress returns its defaults.
Init ==
    /\ PlayerInit /\ CandyInit /\ GhostInit /\ GameInit(1, FALSE) /\ FeaturesInit
    /\ WorldInit /\ CallInit

(***************************************************************************)
(* Specifications                                                          *)
(***************************************************************************)
Next == PlayerUpdate \/ TakeDamage \/ AddShield

Spec == Init /\ [][Next]_vars

NextPowerups == PlayerUpdate \/ AddAnyPowerup

SpecPowerups == Init /\ [][NextPowerups]_vars

\* ---- the player's velocity: updates with at most one key held per axis,
\*      or all four held, under every combination of blocked moves, with
\*      speed boosts coming and running out
MoveKeys ==
    {k \in KeySets : (k.left /\ k.right) = (k.up /\ k.down)}

NextMove ==
    \/ \E keys \in MoveKeys, blocked_x \in BOOLEAN, blocked_y \in BOOLEAN :
          PlayerUpdateWith(keys, blocked_x, blocked_y)
    \/ \E d \in Durations : AddPowerup("SPEED_BOOST", d)

SpecMove == Init /\ [][NextMove]_vars

\* ---- candies collected, again and again, by a player whose double points
\*      come and run out
NextCandy ==
    \/ \E i \in 1..Len(candies) : CollectCandy(i)
    \/ \E d \in Durations : AddPowerup("DOUBLE_POINTS", d)
    \/ PlayerUpdate

SpecCandy == Init /\ [][NextCandy]_vars

\* ---- Player.collect_candy called with the points of the candy types
CandyPoints == {NORMAL_POINTS, CURSED_POINTS, BONUS_POINTS}

NextPoints ==
    \/ \E points \in CandyPoints :
          candies_collected < MaxCollected /\ CollectCandyCall(points)
    \/ \E d \in Durations : AddPowerup("DOUBLE_POINTS", d)
    \/ PlayerUpdate

SpecPoints == Init /\ [][NextPoints]_vars

NextGhost == GhostTick

\* A save file left by an earlier session that completed the level before
\* the last but one (save_progress stores the next level's number), with the
\* tutorial done.
InitSaved ==
    /\ PlayerInit /\ CandyInit /\ GhostInit /\ FeaturesInit /\ WorldInit /\ CallInit
    /\ GameInit(MAX_LEVEL - 1, TRUE)

PlayCandies == {"none", "normal"}

NextPlay ==
    \/ LoadGame
    \/ \E candy \in PlayCandies :
          \* the player stops picking up candies at the quota
          /\ candy # "none" => candies_collected < CANDIES_TO_COLLECT
          /\ SpaceKey(candy)
    \/ \E spot \in PlayerSpots, contact \in BOOLEAN : PlayTick(spot, contact)
    \/ RestartLevel
    \/ StartEndlessMode

SpecPlay == InitSaved /\ [][NextPlay]_vars

NextNav ==
    \/ StartNewGame
    \/ LoadGame
    \/ EscapeKey
    \/ ResumeButton
    \/ ShowSettings
    \/ ReturnFromSettings
    \/ RestartLevel
    \/ ReturnToMainMenu
    \/ \E candy \in PlayCandies :
          /\ candy # "none" => candies_collected < MaxCollected
          /\ candy # "none" => score < MaxNavScore
          /\ SpaceKeyScored(candy)
    \/ \E spot \in PlayerSpots, contact \in BOOLEAN : PlayTick(spot, contact)

SpecNav == Init /\ [][NextNav]_vars

\* The same game with the updates and the SPACE presses that come while a
\* menu or a screen is shown
NextMenus ==
    \/ NextNav
    \/ MenuUpdate
    \/ SpaceIgnored

SpecMenus == Init /\ [][NextMenus]_vars

\* Where the player may stand after a tick in SpecCemetery
GateSpots == {Spawn, GateSpot}

\* A loaded game on a level with a cemetery gate: the player walks onto the
\* gate tile and presses SPACE, with the earlier key state either way.
NextCemetery ==
    \/ LoadGame
    \/ \E candy \in PlayCandies, space_held \in BOOLEAN :
          /\ candy # "none" => candies_collected < MaxCollected
          /\ SpaceKeyAt(candy, space_held)
    \/ \E spot \in GateSpots, contact \in BOOLEAN : PlayTick(spot, contact)
    \/ EscapeKey

SpecCemetery == InitSaved /\ [][NextCemetery]_vars

NextFeatures ==
    \/ \E order \in ShuffleOutcomes : AddChurchPuzzle(order)
    \/ AddDiggingSite
    \/ \E at \in FeatureSpots : HandleInteractions(at)
    \/ \E keys \in {"none", "left", "right"}, space_pressed \in BOOLEAN,
          shuffled \in ShuffleOutcomes :
          /\ space_pressed => space_presses < MaxSpacePresses
          /\ FeaturesUpdate(keys, space_pressed, shuffled)

SpecFeatures == Init /\ [][NextFeatures]_vars

SpecGhost == Init /\ [][NextGhost]_vars

\* Church puzzles alone: puzzles are added, the player interacts and plays
\* them with any combination of direction key and SPACE, and is healed.
NextPuzzle ==
    \/ \E order \in PuzzleOrders : AddChurchPuzzle(order)
    \/ \E at \in PuzzleSpots : HandleInteractions(at)
    \/ \E keys \in {"none", "left", "right"}, space_pressed \in BOOLEAN,
          shuffled \in PuzzleOrders :
          FeaturesUpdate(keys, space_pressed, shuffled)
    \/ HealCall

SpecPuzzle == Init /\ [][NextPuzzle]_vars

\* Where the player stands when interacting in SpecDig: on the first digging
\* location, or out of reach of every site on the puzzle location
DigSpots == {DigSiteLocation(1), ChurchPuzzleLocation}

\* Digging sites alone: sites are added, the player starts digging on the
\* first one and the manager is updated with SPACE pressed or not.
NextDig ==
    \/ AddDiggingSite
    \/ \E at \in DigSpots : HandleInteractions(at)
    \/ \E space_pressed \in BOOLEAN : FeaturesUpdate("none", space_pressed, Symbols)
    \/ \E i \in 1..MaxSites : DigCall(i)

SpecDig == Init /\ [][NextDig]_vars

SpecTutorial == Init /\ [][NextTutorial]_vars

SpecNight == InitSaved /\ [][NextNight]_vars

(***************************************************************************)
(* One _update_gameplay call on a level with traps and with several ghosts *)
(* touching the player.  The player has collected no candy, so             *)
(* _check_level_completion finds nothing to do; the level is one of        *)
(* permanent night, where _update_day_night_cycle only sets the flag.      *)
(***************************************************************************)

\* The ghost loop of _check_collisions over `overlapping` ghosts whose
\* rectangle meets the player's: take_damage unless GHOST_REPEL is active,
\* _game_over (over) when a hit leaves health <= 0.
RECURSIVE GhostContacts(_, _, _, _)
GhostContacts(overlapping, has_repel, shielded, pl) ==
    IF overlapping = 0 THEN pl
    ELSE LET hit == ~has_repel /\ CanBeDamaged(pl.timer, shielded)
         IN  GhostContacts(overlapping - 1, has_repel, shielded,
                [health |-> IF hit THEN pl.health - 1 ELSE pl.health,
                 timer |-> IF hit THEN INVINCIBILITY_DURATION ELSE pl.timer,
                 over |-> pl.over \/ (hit /\ pl.health - 1 <= 0)])

\* The player after Player.update, SpecialFeaturesManager.update and
\* _check_collisions, the player's movement ending on `at`
HurtPlayer(at, overlapping) ==
    GhostContacts(overlapping,
        HasPowerup(UpdatePowerups(active_powerups), "GHOST_REPEL"),
        HasPowerup(active_powerups, "SHIELD"),
        [health |-> UpdateTraps(traps, at,
                       [health |-> health,
                        timer |-> IF invincible_timer > 0
                                  THEN invincible_timer - 1 ELSE invincible_timer,
                        calls |-> 0],
                       HasPowerup(active_powerups, "SHIELD")).pl.health,
         timer |-> UpdateTraps(traps, at,
                       [health |-> health,
                        timer |-> IF invincible_timer > 0
                                  THEN invincible_timer - 1 ELSE invincible_timer,
                        calls |-> 0],
                       HasPowerup(active_powerups, "SHIELD")).pl.timer,
         over |-> FALSE])

\* GameManager.update in state PLAYING, i.e. _update_gameplay
HurtTick(at, overlapping) ==
    /\ current_state = "PLAYING"
    /\ current_level # 0 /\ NightMode(current_level)
    /\ candies_collected < CANDIES_TO_COLLECT
    /\ shield_active' = HasPowerup(active_powerups, "SHIELD")
    /\ invisibility_active' = HasPowerup(active_powerups, "INVISIBILITY")
    /\ time_slow_active' = HasPowerup(active_powerups, "TIME_SLOW")
    /\ double_points_active' = HasPowerup(active_powerups, "DOUBLE_POINTS")
    /\ active_powerups' = UpdatePowerups(active_powerups)
    /\ traps' = UpdateTraps(traps, at,
                    [health |-> health,
                     timer |-> IF invincible_timer > 0
                               THEN invincible_timer - 1 ELSE invincible_timer,
                     calls |-> 0],
                    HasPowerup(active_powerups, "SHIELD")).traps
    /\ health' = HurtPlayer(at, overlapping).health
    /\ invincible_timer' = HurtPlayer(at, overlapping).timer
    /\ current_state' = IF HurtPlayer(at, overlapping).over THEN "GAME_OVER"
                        ELSE current_state
    /\ night_mode_active' = TRUE
    /\ player_xy' = at
    /\ since_loss' = IF health' < health THEN 0
                     ELSE IF since_loss < INVINCIBILITY_DURATION
                     THEN since_loss + 1 ELSE since_loss
    /\ UNCHANGED <<candies_collected, score, moveVars, candyVars, ghostVars>>
    /\ UNCHANGED <<previous_state, tutorial_completed, tutorial, saved_level,
                   saved_tutorial, current_level_number, levels, current_level,
                   night_mode_timer>>
    /\ UNCHANGED <<church_puzzles, digging_sites, active_puzzle, active_digging,
                   traps_added, space_presses>>
    /\ UNCHANGED butHurt
    /\ op' = "hurt_tick"
    /\ arg' = [at |-> at, overlapping |-> overlapping]
    /\ ret' = FALSE

\* Where the player's movement ends in SpecHurt: on the trap, or far from it
HurtStops == {TrapLocation(1), Spawn}
HurtKinds == {"SHIELD", "GHOST_REPEL"}

\* A loaded game on a level with a trap: ticks with up to MaxOverlap ghosts
\* on the player, power-ups picked up, and restarts after a game over.
NextHurt ==
    \/ LoadGame
    \/ traps_added < MaxHurtTraps /\ AddTrap
    \/ \E k \in HurtKinds :
          /\ current_state = "PLAYING" /\ active_powerups = << >>
          /\ invincible_timer = 0
          /\ AddPowerup(k, MaxDuration)
    \/ \E at \in HurtStops, overlapping \in 0..MaxOverlap : HurtTick(at, overlapping)
    \/ RestartLevel

SpecHurt == InitSaved /\ [][NextHurt]_vars

\* Distances from a trap at which the player stops: exactly the trigger
\* radius, exactly the damage radius, and a tenth of a pixel beyond it
TrapStops == {TRIGGER_RADIUS, DAMAGE_RADIUS, DAMAGE_RADIUS + 1}

\* Traps alone: traps are added, the player walks between the stops of all
\* traps, and the manager is updated.
NextTraps ==
    \/ traps_added < MaxTraps /\ AddTrap
    \/ \E i \in 1..MaxTraps, dist \in TrapStops : MoveTo(BelowTrap(i, dist))
    \/ FeaturesUpdate("none", FALSE, Symbols)

SpecTraps == Init /\ [][NextTraps]_vars

\* ---- traps laid one after the other, each once the one before it is gone,
\*      a player who walks from trap to trap, and the player's own update,
\*      which runs the invincibility timer down
NextMinefield ==
    \/ traps = << >> /\ traps_added < MaxMines /\ AddTrap
    \/ \E i \in 1..MaxMines : MoveTo(TrapLocation(i))
    \/ FeaturesUpdate("none", FALSE, Symbols)
    \/ PlayerUpdate

SpecMinefield == Init /\ [][NextMinefield]_vars

\* A TileMap under set_tile, get_tile, is_solid_tile and is_door_tile with
\* coordinates inside and outside the grid.
NextTiles ==
    \E x \in TileColumns, y \in TileRows :
        \/ \E t \in TileDraws :
              /\ \/ t = "EMPTY"
                 \/ Cardinality(NonEmptyCells(tile_map) \ {<<x, y>>}) < MaxSetTiles
              /\ SetTileCall(x, y, t)
        \/ GetTileCall(x, y)
        \/ IsSolidTileCall(x, y)
        \/ IsDoorTileCall(x, y)

SpecTiles == Init /\ [][NextTiles]_vars

\* Levels 1..MaxBuiltLevel as Level.__init__ generates them, one Level per
\* behaviour, under the draws described with the Level operators.
NextLevel ==
    \E n \in BuiltLevels, low \in BOOLEAN, obstacles \in ObstacleDraws,
       a \in DrawnTiles, b \in DrawnTiles :
        NewLevelCall(n, [low |-> low, obstacles |-> obstacles, tiles |-> <<a, b>>])

SpecLevel == Init /\ [][NextLevel]_vars

\* One Easter egg of any kind, and a player who walks about it, is hurt and
\* interacts with it.
NextEgg ==
    \/ \E kind \in EggKinds : NewEggCall(kind)
    \/ \E at \in EggStops : MoveTo(at)
    \/ health > PLAYER_MAX_HEALTH - 1 /\ TakeDamage
    \/ InteractCall

SpecEgg == Init /\ [][NextEgg]_vars

\* A loaded game played update after update, each update step by step; between
\* two updates the player may be handed the power-up a ghost looks at.
NextTick ==
    \/ tick_steps = << >> /\ LoadGame
    \/ \E k \in TickKinds, d \in Durations :
          /\ tick_steps = << >> /\ current_state = "PLAYING"
          /\ active_powerups = << >>
          /\ AddPowerup(k, d)
    \/ \E px \in TickStops : TickPlayerUpdate(px)
    \/ TickLevelUpdate
    \/ TickFeaturesUpdate
    \/ TickCheckCollisions
    \/ TickDayNightCycle
    \/ TickLevelCompletion

SpecTick == InitSaved /\ [][NextTick]_vars

\* A player put on a small map and updated with keys held.
NextWalk ==
    \/ op = "init" /\ NewTileMapCall(WalkWidth, WalkHeight)
    \/ op = "new_tile_map" /\ SetTileCall(WalkHouse.x, WalkHouse.y, "HOUSE")
    \/ \E at \in WalkStarts : NewPlayerAt(at)
    \/ \E keys \in WalkKeys :
          op \in {"new_player", "update_on_map"} /\ PlayerUpdateOnMap(keys)

SpecWalk == Init /\ [][NextWalk]_vars

\* A ghost put on a small map and updated with the player near or far.
NextHaunt ==
    \/ op = "init" /\ NewTileMapCall(HauntWidth, HauntHeight)
    \/ op = "new_tile_map" /\ SetTileCall(WalkHouse.x, WalkHouse.y, "HOUSE")
    \/ \E at \in HauntStarts, target \in HauntTargets :
          NewGhostCall(at, <<at, target>>)
    \/ \E pl \in HauntStops, invisible \in BOOLEAN : GhostUpdateOnMap(pl, invisible)

SpecHaunt == Init /\ [][NextHaunt]_vars

\* The ghost's home in SpecReturn: a pixel left of the house, half-way down
\* its row.  The player stands still in the row above the house, on the
\* third or on the fourth tile, both within the detection radius of the home.
ReturnHome == [x |-> TILE_SIZE - PX, y |-> TILE_SIZE + TILE_SIZE \div 2]
ReturnStops ==
    {[x |-> 2 * TILE_SIZE + TILE_SIZE \div 2, y |-> TILE_SIZE \div 2],
     [x |-> 3 * TILE_SIZE + TILE_SIZE \div 2, y |-> TILE_SIZE \div 2]}

\* The ghost's update on the map of SpecHaunt, every tick, for as long as
\* the game runs, with a player who does not move
ReturnUpdate ==
    /\ op \in {"new_player", "ghost_update_on_map"}
    /\ GhostUpdateStep(player_xy, FALSE, FALSE)

NextReturn ==
    \/ op = "init" /\ NewTileMapCall(HauntWidth, HauntHeight)
    \/ op = "new_tile_map" /\ SetTileCall(WalkHouse.x, WalkHouse.y, "HOUSE")
    \/ op = "set_tile" /\ NewGhostCall(ReturnHome, << >>)
    \/ \E at \in ReturnStops : op = "new_ghost" /\ NewPlayerAt(at)
    \/ ReturnUpdate

\* A step of ReturnUpdate, by what it does to the parity of the updates
ReturnFrame ==
    /\ op \in {"new_player", "ghost_update_on_map"}
    /\ map_ghost # NoMapGhost
    /\ map_updates' = (map_updates + 1) % 2

\* GameManager.run calls update once per frame for as long as the game
\* runs: once the player is there, the ghost's update is always taken again.
SpecReturn == Init /\ [][NextReturn]_vars /\ WF_map_updates(ReturnFrame)

\* save_data.txt under the game's writes and others', and the three readers.
NextSave ==
    \/ \E file \in ForeignFiles : ForeignWrite(file)
    \/ \E l \in SaveLevels, sc \in Scores, completed \in BOOLEAN, write_ok \in BOOLEAN :
          SaveProgressCall(l, sc, completed, write_ok)
    \/ \E read_ok \in BOOLEAN :
          \/ LoadProgressCall(read_ok)
          \/ LoadSavedProgressCall(read_ok)
          \/ LoadGameDataCall(read_ok)

SpecSave == Init /\ [][NextSave]_vars

\* high_scores.txt, first missing, under save_high_score and load_high_scores.
NextScores ==
    \/ \E sc \in Scores, read_ok \in BOOLEAN, write_ok \in BOOLEAN :
          SaveHighScoreCall(sc, read_ok, write_ok)
    \/ \E read_ok \in BOOLEAN : LoadHighScoresCall(read_ok)

SpecScores == Init /\ [][NextScores]_vars

(***************************************************************************)
(* Claims                                                                  *)
(***************************************************************************)
CountOfKind(ps, k) == Cardinality({i \in 1..Len(ps) : ps[i].type = k})

OthersOf(ps, k) ==
    LET IsOther(p) == p.type # k
    IN  SelectSeq(ps, IsOther)

\* C1: take_damage returns false and leaves health and the invincibility
\* timer unchanged when invincible_timer > 0 or a Shield power-up is in the
\* active power-up list; otherwise it takes exactly 1 health, sets the timer
\* to INVINCIBILITY_DURATION and returns true.  (Shield is read from the
\* list, as the claim words it, at whatever point the call is made.)
C1_TakeDamageContract ==
    [][op' = "take_damage" =>
         IF invincible_timer > 0 \/ HasPowerup(active_powerups, "SHIELD")
         THEN ret' = FALSE /\ health' = health
              /\ invincible_timer' = invincible_timer
         ELSE ret' = TRUE /\ health' = health - 1
              /\ invincible_timer' = INVINCIBILITY_DURATION]_vars

\* C8: the active power-up list never holds two entries of one kind; adding
\* a kind leaves exactly one entry of it, carrying the duration just supplied
\* (not a sum with the old one), and leaves the entries of all other kinds as
\* they were.
C8_NoDuplicateKinds ==
    \A k \in Kinds : CountOfKind(active_powerups, k) <= 1

C8_AddReplaces ==
    /\ []C8_NoDuplicateKinds
    /\ [][op' = "add_powerup" =>
            /\ CountOfKind(active_powerups', arg'.kind) = 1
            /\ \A i \in 1..Len(active_powerups') :
                 active_powerups'[i].type = arg'.kind
                   => active_powerups'[i].duration = arg'.duration
            /\ OthersOf(active_powerups', arg'.kind)
                 = OthersOf(active_powerups, arg'.kind)]_vars

\* C8 witness: add_powerup was just called for a kind that was already
\* active, next to an entry of another kind.
C8_Witness ==
    /\ op = "add_powerup"
    /\ arg.replaced
    /\ Len(active_powerups) >= 2

\* C9: every update tick lowers each active power-up's remaining duration by
\* exactly 1 and the entry is removed when the remaining duration reaches
\* zero, so that no entry with remaining duration 0 is in the list after an
\* update.
C9_RemovedAtZero ==
    /\ [][op' = "update" =>
            \A i \in 1..Len(active_powerups) :
              LET p == active_powerups[i]
              IN  IF p.duration - 1 > 0
                  THEN \E j \in 1..Len(active_powerups') :
                         active_powerups'[j] = [p EXCEPT !.duration = @ - 1]
                  ELSE ~HasPowerup(active_powerups', p.type)]_vars
    /\ [](op = "update" =>
            \A i \in 1..Len(active_powerups) : active_powerups[i].duration # 0)

\* C3: a patrolling ghost switches to chase exactly on an update at which its
\* distance to the player is at most the detection radius (100 px) and the
\* player is not invisible; Ghost.update returns true on exactly that update.
\* On every other update (player invisible, player out of range, ghost already
\* chasing or returning) it returns false, and a patrolling ghost that did not
\* detect the player is still patrolling.
C3_ChaseStart ==
    [][op' = "ghost_update" =>
         LET dist == Abs(ghost_x - player_x')
             detected == dist <= 100 * 10 /\ ~invisibility_active'
         IN  /\ ghost_state = "patrol" =>
                   /\ ghost_state' = (IF detected THEN "chase" ELSE "patrol")
                   /\ ret' = detected
             /\ ghost_state # "patrol" => ret' = FALSE
             /\ ghost_state' = "chase" /\ ghost_state # "chase" =>
                   ghost_state = "patrol" /\ ret' = TRUE]_vars

\* C3 witness: the ghost has just started a chase from exactly the detection
\* radius (it stood on its start point, the player on NearStop) and the update
\* returned true.
C3_Witness ==
    /\ op = "ghost_update" /\ ret = TRUE
    /\ ghost_state = "chase" /\ chase_run = 1
    /\ player_x = NearStop
    /\ ghost_x = GhostStartX - GHOST_CHASE_SPEED

\* C4: the chase countdown is 300 on entering chase and goes down by one on
\* every later update made in chase; a chasing ghost switches to return
\* exactly on an update at which the countdown reaches 0 or its distance to
\* the player exceeds 1.5 x the detection radius (150 px), and otherwise keeps
\* chasing; a patrolling ghost never switches to return; and no ghost ends
\* more than 300 consecutive updates in chase.
C4_ChaseEnd ==
    /\ [][op' = "ghost_update" =>
            LET dist == Abs(ghost_x - player_x')
            IN  /\ ghost_state = "patrol" /\ ghost_state' = "chase" =>
                      chase_timer' = 300
                /\ ghost_state = "chase" =>
                      /\ chase_timer' = chase_timer - 1
                      /\ ghost_state' =
                           (IF chase_timer' = 0 \/ dist > 150 * 10
                            THEN "return" ELSE "chase")
                /\ ghost_state = "patrol" => ghost_state' # "return"]_vars
    /\ [](ghost_state = "chase" => chase_timer \in 1..300)
    /\ [](chase_run <= 300)

\* C4 witness: a chase that lasted its full 300 updates has just ended because
\* the countdown reached 0, with the player still within 1.5 radii.
C4_Witness ==
    /\ op = "ghost_update"
    /\ ghost_state = "return" /\ chase_timer = 0
    /\ 2 * Abs(ghost_x - player_x) <= GHOST_DETECTION_RADIUS

\* C4 second case: a chase ended by distance on the update after it started.
C4_EscapeReached ==
    /\ op = "ghost_update"
    /\ ghost_state = "return" /\ chase_timer = CHASE_DURATION - 1

\* C2: whenever the player's health reaches 0 in a gameplay tick, the game
\* state is GameOver at the end of that tick (so three damaging hits from
\* health 3, with the invincibility window elapsed between them, end in
\* health 0 and GameOver).
C2_GameOverAtZero ==
    [][op' = "tick" /\ current_state = "PLAYING" /\ health > 0 /\ health' <= 0
         => current_state' = "GAME_OVER"]_vars

\* C5: a Playing tick completes the level if and only if candies_collected is
\* at least 15 and the player stands within 1.5 tiles (48 px) of the house
\* point.  Completing a level before the last loads level + 1, puts the player
\* on the spawn point with candies_collected 0 and leaves the game in Playing;
\* completing level 5 makes the state Victory; without completion the level
\* number and the candy count stay and the state is not Victory.
C5_LevelCompletion ==
    [][op' = "tick" /\ current_state = "PLAYING" =>
         LET n == current_level_number
             dx == arg'.spot.x - 4 * 32 * 10
             dy == arg'.spot.y - 18 * 32 * 10
             near == dx * dx + dy * dy <= (48 * 10) * (48 * 10)
             done == candies_collected >= 15 /\ near
         IN  IF done
             THEN IF n = 5
                  THEN current_state' = "VICTORY"
                  ELSE /\ current_level_number' = n + 1
                       /\ current_level' = n + 1
                       /\ player_xy' = Spawn
                       /\ candies_collected' = 0
                       /\ current_state' = "PLAYING"
             ELSE /\ current_level_number' = n
                  /\ current_level' = current_level
                  /\ candies_collected' = candies_collected
                  /\ current_state' # "VICTORY"]_vars

\* C6: after start_new_game, load_game, start_endless_mode, restart_level and
\* after a tick that advanced to the next level, the current level is a
\* freshly generated one: none of its candies is collected and it has no
\* ghost beyond those the generator placed.
C6_FreshLevel ==
    [][(\/ op' \in {"start_new_game", "load_game", "start_endless_mode",
                    "restart_level"}
        \/ op' = "tick" /\ current_level_number' # current_level_number)
         => /\ levels'[current_level'].collected = 0
            /\ levels'[current_level'].extra_ghosts = 0]_vars

\* C7: ESC pauses from Playing and from no other state, and from Paused a
\* resume request (ESC or the Resume button) always puts the game back in
\* Playing, whatever menu actions were taken while paused.
C7_PauseToggle ==
    [][/\ op' = "escape" /\ current_state = "PLAYING" => current_state' = "PAUSED"
       /\ op' = "escape" /\ current_state \notin {"PLAYING", "PAUSED"}
            => current_state' # "PAUSED"
       /\ op' \in {"escape", "resume_game"} /\ current_state = "PAUSED"
            => current_state' = "PLAYING"]_vars

ActiveOnes(objs) == {i \in 1..Len(objs) : objs[i].active}

\* C10: at any time at most one church puzzle and at most one digging site
\* has active = true, and an active object is the one that active_puzzle /
\* active_digging refers to; handle_interactions starts no interaction of a
\* type while an object of that type is active.
C10_SingleActive ==
    /\ [](/\ Cardinality(ActiveOnes(church_puzzles)) <= 1
          /\ Cardinality(ActiveOnes(digging_sites)) <= 1
          /\ \A i \in ActiveOnes(church_puzzles) : active_puzzle = i
          /\ \A i \in ActiveOnes(digging_sites) : active_digging = i)
    /\ [][op' = "handle_interactions" =>
            /\ ActiveOnes(church_puzzles) # {} => church_puzzles' = church_puzzles
            /\ ActiveOnes(digging_sites) # {} => digging_sites' = digging_sites]_vars

\* The order of puzzle p after the symbol under the cursor has been moved by
\* the direction key of an update (cursor positions counted from 0).
OrderAfterKey(p, keys) ==
    LET c == p.selected_symbol + 1
    IN  IF keys = "left" /\ c > 1 THEN Swap(p.current_order, c, c - 1)
        ELSE IF keys = "right" /\ c < 4 THEN Swap(p.current_order, c, c + 1)
        ELSE p.current_order

IsOrder(seq) ==
    /\ Len(seq) = 4
    /\ {seq[i] : i \in 1..4} = {"cross", "candle", "bible", "angel"}

\* What C11 says of one manager update for the puzzle the manager holds as
\* active (p before, q after), `compared` being the order held against the
\* target when SPACE is pressed.
PuzzleStep(p, q, compared) ==
    IF arg'.space_pressed /\ compared = TargetOrder
    THEN /\ q.completed /\ ~q.active
         /\ active_puzzle' = 0
         /\ score' = score + 100
         /\ health' = (IF health + 1 > 5 THEN 5 ELSE health + 1)
    ELSE /\ ~q.completed /\ q.active
         /\ active_puzzle' = active_puzzle
         /\ score' = score /\ health' = health
         /\ IF arg'.space_pressed THEN IsOrder(q.current_order)
            ELSE q.current_order = OrderAfterKey(p, arg'.keys)

\* Completion is final, a completed puzzle takes no input, and score only
\* moves by the reward of the puzzles completed in the step.
PuzzleCompletionFinal ==
    [][/\ \A i \in 1..Len(church_puzzles) :
            church_puzzles[i].completed => church_puzzles'[i] = church_puzzles[i]
       /\ score' = score + 100 * Cardinality(
              {i \in 1..Len(church_puzzles) :
                 ~church_puzzles[i].completed /\ church_puzzles'[i].completed})]_vars

\* C11 as stated: for the active puzzle, an update with SPACE pressed
\* completes it exactly when its current order at the time of the call equals
\* the target order (completed true and final, no further input, +100 score
\* and +1 health capped at 5, once); with any other order it is reshuffled,
\* stays uncompleted and active.
C11_SubmitAsHeld ==
    /\ PuzzleCompletionFinal
    /\ [][op' = "features_update" /\ active_puzzle # 0
            /\ church_puzzles[active_puzzle].active =>
            PuzzleStep(church_puzzles[active_puzzle],
                       church_puzzles'[active_puzzle],
                       church_puzzles[active_puzzle].current_order)]_vars

\* C11, amended: the order that is held against the target is the one left by
\* the direction key of the same update (the symbol under the cursor is moved
\* first); an update without SPACE only moves the symbol, so that the cursor
\* on position 0 of [B,A,C,D] and the right key give [A,B,C,D].
C11_SubmitAfterMove ==
    /\ PuzzleCompletionFinal
    /\ [][op' = "features_update" /\ active_puzzle # 0
            /\ church_puzzles[active_puzzle].active =>
            PuzzleStep(church_puzzles[active_puzzle],
                       church_puzzles'[active_puzzle],
                       OrderAfterKey(church_puzzles[active_puzzle], arg'.keys))]_vars

\* C11 witness: a puzzle has just been completed by an update that moved the
\* symbol into place and submitted, and the reward took health to its cap.
C11_Witness ==
    /\ op = "features_update" /\ arg.space_pressed /\ arg.keys = "right"
    /\ active_puzzle = 0
    /\ \E i \in 1..Len(church_puzzles) :
          church_puzzles[i].completed /\ church_puzzles[i].selected_symbol = 1
    /\ score = 100 /\ health = 5

NewlyCompletedSites ==
    {i \in 1..Len(digging_sites) :
       ~digging_sites[i].completed /\ digging_sites'[i].completed}

\* C12: a dig (an update with SPACE pressed, for the site being dug; a dig
\* call on any other site) that finds the cooldown counter above 0, or the
\* site inactive or completed, leaves progress alone; a dig that finds the
\* counter at 0 raises progress by exactly 1 and sets the counter to 30, so
\* that the next accepted dig is 30 updates later at the earliest; the fifth
\* accepted dig completes the site; a completed site never changes again,
\* progress never exceeds 5, and ZOMBIE_POWER (900 ticks) is granted in the
\* completing update and in no other.
C12_DigContract ==
    /\ [][op' = "features_update" /\ active_digging # 0 =>
            LET s == digging_sites[active_digging]
                q == digging_sites'[active_digging]
                \* the counter as the dig finds it: the update has run first
                seen == IF s.dig_timer > 0 THEN s.dig_timer - 1 ELSE 0
            IN  IF arg'.space_pressed /\ seen = 0
                THEN /\ q.dig_progress = s.dig_progress + 1
                     /\ q.dig_timer = 30
                     /\ q.completed = (q.dig_progress = 5)
                     /\ q.active = ~q.completed
                     /\ active_digging' = (IF q.completed THEN 0 ELSE active_digging)
                ELSE /\ q = [s EXCEPT !.dig_timer = seen]
                     /\ active_digging' = active_digging]_vars
    /\ [][op' = "dig" => digging_sites' = digging_sites /\ ret' = FALSE]_vars
    /\ [](\A i \in 1..Len(digging_sites) :
            /\ digging_sites[i].dig_progress \in 0..5
            /\ digging_sites[i].completed = (digging_sites[i].dig_progress = 5))
    /\ [][\A i \in 1..Len(digging_sites) :
            digging_sites[i].completed => digging_sites'[i] = digging_sites[i]]_vars
    /\ [][IF NewlyCompletedSites # {}
          THEN /\ Cardinality(NewlyCompletedSites) = 1
               /\ CountOfKind(active_powerups', "ZOMBIE_POWER") = 1
               /\ \E j \in 1..Len(active_powerups') :
                     active_powerups'[j] = [type |-> "ZOMBIE_POWER", duration |-> 900]
          ELSE active_powerups' = active_powerups]_vars

\* C12 witness: the site has just been completed by its fifth dig, each dig
\* having waited out the cooldown, and the power-up is there.
C12_Witness ==
    /\ op = "features_update" /\ arg.space_pressed
    /\ active_digging = 0
    /\ Len(digging_sites) >= 1
    /\ digging_sites[1].completed /\ digging_sites[1].dig_progress = 5
    /\ digging_sites[1].dig_timer = 30
    /\ HasPowerup(active_powerups, "ZOMBIE_POWER")

TrapPositions(ts) == {ts[i].pos : i \in 1..Len(ts)}

\* The traps of the list that explode in the update now made: armed, and
\* the update is the 30th since the one that armed them
Detonating == {i \in 1..Len(traps) :
                 traps[i].triggered /\ traps[i].explosion_timer + 1 = 30}

\* C13: an idle trap arms in the first update that finds the player within
\* 40 px and is idle after any other update; an armed trap stays armed and
\* in the list, wherever the player goes, for 29 further updates and explodes
\* in the 30th; an exploding trap calls take_damage once if the player is
\* then within 60 px and not at all otherwise; it leaves the list in that
\* update, nothing comes back into the list, and only an update changes a
\* trap.
C13_TrapContract ==
    /\ [][op' = "features_update" =>
            /\ \A i \in 1..Len(traps) :
                 LET t == traps[i]
                     near == Dist2(player_xy, t.pos) <= (40 * 10) * (40 * 10)
                     expected ==
                       IF t.triggered THEN [t EXCEPT !.explosion_timer = @ + 1]
                       ELSE [t EXCEPT !.triggered = near]
                 IN  IF i \in Detonating
                     THEN t.pos \notin TrapPositions(traps')
                     ELSE \E j \in 1..Len(traps') : traps'[j] = expected
            /\ Len(traps') = Len(traps) - Cardinality(Detonating)
            /\ arg'.damage_calls = Cardinality(
                  {i \in Detonating :
                     Dist2(player_xy, traps[i].pos) <= (60 * 10) * (60 * 10)})
            /\ health' \in {health, health - 1}
            /\ arg'.damage_calls = 0 => health' = health]_vars
    /\ [][op' \notin {"features_update", "add_trap"} => traps' = traps]_vars
    /\ [][op' = "add_trap" =>
            /\ SubSeq(traps', 1, Len(traps)) = traps
            /\ traps'[Len(traps')].pos \notin {TrapLocation(k) : k \in 1..traps_added}]_vars
    /\ [](\A i \in 1..Len(traps) :
            /\ traps[i].explosion_timer \in 0..29
            /\ traps[i].explosion_timer > 0 => traps[i].triggered
            /\ traps[i].pos \in {TrapLocation(k) : k \in 1..traps_added}
            /\ \A j \in 1..Len(traps) : traps[j].pos = traps[i].pos => j = i)

\* C13 witness: the first trap has just exploded and called take_damage on a
\* player standing exactly 60 px from it (beyond the trigger radius), who
\* lost a heart; another trap is still in the list.
C13_Witness ==
    /\ op = "features_update" /\ arg.damage_calls = 1
    /\ player_xy = BelowTrap(1, DAMAGE_RADIUS)
    /\ TrapLocation(1) \notin TrapPositions(traps)
    /\ Len(traps) = 1
    /\ health = PLAYER_MAX_HEALTH - 1

\* C14: in Playing, SPACE pressed on the CemeteryGate tile (tile (24, 8) of
\* levels 3 to 5) with the confirm input held takes the game to the Cemetery
\* state, and the program never ends in an error.
C14_EnterCemetery ==
    /\ [][/\ op' = "space" /\ current_state = "PLAYING" /\ arg'.space_held
          /\ current_level_number >= 3
          /\ player_xy.x \div (32 * 10) = 24 /\ player_xy.y \div (32 * 10) = 8
          => current_state' = "CEMETERY"]_vars
    /\ [](current_state # "CRASHED")

NightGhostsAdded ==
    levels'[current_level].extra_ghosts - levels[current_level].extra_ghosts

\* The step made night fall on a level that has a day/night cycle
NightFalls ==
    ~night_mode_active /\ night_mode_active' /\ ~NightMode(current_level)

C18_HealthRange == health \in 0..HEAL_CAP

\* C19: for every candy the collected flag only goes up, and it is up after
\* a collect call.  A collect call on a candy that is already collected
\* changes no candy and leaves the player's candy counter, score, health
\* and power-ups as they are, and it returns no particles; a call on a
\* candy not yet collected counts it and returns particles.
C19_CollectOnce ==
    [][ /\ \A i \in 1..Len(candies) :
              candies[i].collected => candies'[i].collected
        /\ op' = "collect" =>
              /\ candies'[arg'.candy].collected
              /\ \A j \in 1..Len(candies) :
                    j # arg'.candy => candies'[j] = candies[j]
              /\ candies[arg'.candy].collected =>
                    /\ candies' = candies
                    /\ UNCHANGED <<candies_collected, score, health,
                                   active_powerups>>
                    /\ ret' = 0
              /\ ~candies[arg'.candy].collected =>
                    /\ candies_collected' = candies_collected + 1
                    /\ score' >= score + candies[arg'.candy].points
                    /\ ret' = PICKUP_PARTICLES
      ]_vars

\* A collect call on the bonus candy after all three candies were collected.
C19_Witness ==
    /\ op = "collect"
    /\ arg.candy = 3
    /\ ret = 0
    /\ candies_collected = 3
    /\ \A i \in 1..Len(candies) : candies[i].collected

\* C20: a collect_candy(points) call adds 1 to the candy counter, and adds
\* 2 * points to the score when the active power-up list holds a
\* DOUBLE_POINTS at the time of the call, else points.
C20_DoublePoints ==
    [][op' = "collect_candy" =>
         /\ candies_collected' = candies_collected + 1
         /\ score' = score + arg'.points *
                 (IF HasPowerup(active_powerups, "DOUBLE_POINTS") THEN 2 ELSE 1)
      ]_vars

\* C21: for every integer coordinate pair outside [0, width) x [0, height),
\* negative values included, get_tile returns WALL, is_solid_tile returns
\* true, is_door_tile returns false and set_tile leaves every cell of the
\* grid as it was; no get_tile call ends in an IndexError.
C21_OutOfBounds ==
    [][LET outside == \/ arg'.x \notin 0..(tile_map.width - 1)
                      \/ arg'.y \notin 0..(tile_map.height - 1)
       IN /\ op' = "get_tile" => ret' # "IndexError"
          /\ op' = "get_tile" /\ outside => ret' = "WALL"
          /\ op' = "is_solid_tile" /\ outside => ret' = TRUE
          /\ op' = "is_door_tile" /\ outside => ret' = FALSE
          /\ op' = "set_tile" /\ outside => tile_map' = tile_map]_vars

\* A get_tile at a negative column answered with WALL although the cell
\* that Python's tiles[y][-1] names holds a door.
C21_Witness ==
    /\ op = "get_tile" /\ arg.x = -1 /\ arg.y = 0 /\ ret = "WALL"
    /\ tile_map.tiles[0][tile_map.width - 1] = "DOOR"

PatrolGhosts(l) == {i \in 1..Len(l.ghosts) : ~l.ghosts[i].boss}
BossGhosts(l) == {i \in 1..Len(l.ghosts) : l.ghosts[i].boss}

\* What C22 says of every level but the number of its patrol ghosts and
\* candies: one boss ghost iff L >= 5, the night flag iff L >= 4, the layout
\* of level 5 for L > 5, and level 1 with one spawn and one house point, no
\* boss and no night flag.
LevelShape ==
    level # NoLevelObject =>
        /\ Cardinality(BossGhosts(level)) = (IF level.level_number >= 5 THEN 1 ELSE 0)
        /\ level.night_mode <=> level.level_number >= 4
        /\ level.level_number > 5 => level.generator = 5
        /\ level.level_number = 1 =>
              /\ level.spawn \in [x : Nat, y : Nat] /\ level.house \in [x : Nat, y : Nat]
              /\ BossGhosts(level) = {}
              /\ ~level.night_mode

\* C22 as stated: a generated level L holds exactly min(3 + L, 8) patrol
\* ghosts, and level 1 holds at least 1 candy and 4 patrol ghosts.
C22_ExactCounts ==
    /\ LevelShape
    /\ level # NoLevelObject =>
          /\ Cardinality(PatrolGhosts(level))
                = (IF 3 + level.level_number <= 8 THEN 3 + level.level_number ELSE 8)
          /\ level.level_number = 1 =>
                Len(level.candies) >= 1 /\ Cardinality(PatrolGhosts(level)) = 4

\* C22, amended: a generated level L holds at most min(3 + L, 8) patrol
\* ghosts and at most 20 candies (a ghost whose 100 draws are all invalid is
\* left out, and so are the candies that 1000 draws did not place); the
\* rest of the claim as stated.
C22_AtMostCounts ==
    /\ LevelShape
    /\ level # NoLevelObject =>
          /\ Cardinality(PatrolGhosts(level))
                <= (IF 3 + level.level_number <= 8 THEN 3 + level.level_number ELSE 8)
          /\ Len(level.candies) <= 20
          /\ level.level_number = 1 => Cardinality(PatrolGhosts(level)) <= 4

\* A level beyond 5 with the layout of level 5, its boss, the night flag and
\* eight patrol ghosts, and a level 1 with fewer than four.
C22_Witness ==
    /\ level # NoLevelObject
    /\ level.level_number > 5 /\ level.generator = 5
    /\ Cardinality(PatrolGhosts(level)) = 8 /\ Cardinality(BossGhosts(level)) = 1

\* pos is the centre of a tile inside the map that is not solid in l's map
OnOpenTile(l, pos) ==
    LET tx == pos.x \div 320
        ty == pos.y \div 320
    IN /\ tx \in 0..29 /\ ty \in 0..19
       /\ pos.x = tx * 320 + 160 /\ pos.y = ty * 320 + 160
       /\ l.tile_map.tiles[ty][tx]
             \notin {"WALL", "HOUSE", "CHURCH", "GRAVE", "TREE", "TRASH_CAN"}

\* pos is at least n tiles from the spawn point of l
ClearsSpawn(l, pos, n) ==
    (pos.x - l.spawn.x) * (pos.x - l.spawn.x) + (pos.y - l.spawn.y) * (pos.y - l.spawn.y)
        >= (n * 320) * (n * 320)

\* C30: every candy, patrol ghost and trap site of a generated level is at
\* the centre of an in-bounds non-solid tile and at least 2 (candy), 5
\* (ghost), 3 (trap) tiles from the spawn point; the level never holds more
\* candies, patrol ghosts or trap sites than were asked for, and is
\* constructed whatever the draws were.
C30_Placement ==
    /\ level # NoLevelObject =>
          /\ \A i \in 1..Len(level.candies) :
                /\ OnOpenTile(level, level.candies[i])
                /\ ClearsSpawn(level, level.candies[i], 2)
          /\ \A i \in PatrolGhosts(level) :
                /\ OnOpenTile(level, level.ghosts[i])
                /\ ClearsSpawn(level, level.ghosts[i], 5)
          /\ \A i \in 1..Len(level.traps) :
                /\ OnOpenTile(level, level.traps[i])
                /\ ClearsSpawn(level, level.traps[i], 3)
          /\ Len(level.candies) <= 20
          /\ Cardinality(PatrolGhosts(level)) <= level.ghost_count
          /\ Len(level.traps) <= 2 + (level.level_number \div 2)
    /\ op = "new_level" => level # NoLevelObject /\ level.level_number = arg.level_number

\* A level in which each of the three placements came out short: some but
\* not all candies, patrol ghosts and trap sites are there.
C30_Witness ==
    /\ level # NoLevelObject
    /\ Len(level.candies) \in 1..19
    /\ Cardinality(PatrolGhosts(level)) \in 1..(level.ghost_count - 1)
    /\ Len(level.traps) \in 1..(1 + (level.level_number \div 2))

\* What the reward text of an egg promises the player
Promised(reward, h, ps, sc) ==
    CASE reward = "Extra candy stash (+25 points)" -> <<h, ps, sc + 25>>
      [] reward = "Health boost (+1 heart)" -> <<IF h < 5 THEN h + 1 ELSE h, ps, sc>>
      [] reward = "Candy magnet (10 seconds)" -> <<h, AddPowerupList(ps, "CANDY_MAGNET", 600), sc>>
      [] reward = "Ghost repel (15 seconds)" -> <<h, AddPowerupList(ps, "GHOST_REPEL", 900), sc>>
      [] reward = "Speed boost (7 seconds)" -> <<h, AddPowerupList(ps, "SPEED_BOOST", 420), sc>>
      [] reward = "Invisibility (12 seconds)" -> <<h, AddPowerupList(ps, "INVISIBILITY", 720), sc>>
      [] reward = "Time slow (8 seconds)" -> <<h, AddPowerupList(ps, "TIME_SLOW", 480), sc>>
      [] reward = "Double points (10 seconds)" -> <<h, AddPowerupList(ps, "DOUBLE_POINTS", 600), sc>>
      [] reward = "Shield (15 seconds)" -> <<h, AddPowerupList(ps, "SHIELD", 900), sc>>
      [] OTHER -> <<h, ps, sc>>

\* C23: interact on an egg farther than 20 px from the player fails with
\* "Get closer!" and changes neither egg nor player; on an activated egg it
\* fails and changes nothing; otherwise it sets activated (which is never
\* reset) and visible (a secret egg starts hidden) and applies the reward,
\* so that the reward is applied once in the egg's lifetime.
C23_InteractOnce ==
    /\ [][op' = "interact" =>
            IF egg.activated
            THEN /\ ~ret'.success
                 /\ UNCHANGED <<egg, playerVars, moveVars, player_xy>>
            ELSE IF (egg.x - player_xy.x) * (egg.x - player_xy.x)
                      + (egg.y - player_xy.y) * (egg.y - player_xy.y) > 200 * 200
            THEN /\ ~ret'.success /\ ret'.message = "Get closer!"
                 /\ UNCHANGED <<egg, playerVars, moveVars, player_xy>>
            ELSE /\ ret'.success
                 /\ egg' = [egg EXCEPT !.activated = TRUE, !.visible = TRUE]
                 /\ <<health', active_powerups', score'>>
                       = Promised(egg.reward, health, active_powerups, score)
                 /\ UNCHANGED <<invincible_timer, shield_active, invisibility_active,
                                time_slow_active, double_points_active,
                                candies_collected, moveVars, player_xy>>]_vars
    /\ [][op' = "new_egg" =>
            ~egg'.activated /\ (egg'.visible <=> egg'.type # "secret")]_vars
    /\ [][egg # NoEgg /\ egg.activated => egg'.activated]_vars

\* A secret egg found by a hurt player standing exactly 20 px from it, and
\* tried again afterwards.
C23_Witness ==
    /\ op = "interact" /\ ~ret.success /\ ret.message = "Already found!"
    /\ egg.type = "secret" /\ egg.visible /\ egg.reward = "Health boost (+1 heart)"
    /\ health = PLAYER_MAX_HEALTH
    /\ player_xy.x = egg.x + 200

\* C24: whatever save_data.txt holds (missing, unreadable, corrupt, JSON of
\* the wrong shape), load_progress, the start-up read and load_game's read
\* raise nothing, and a read that fails yields level 1, score 0,
\* tutorial_completed false; a failed save_progress leaves the file alone.
C24_ReadsNeverFail ==
    /\ [][op' \in {"load_progress", "_load_saved_progress", "load_game_data"} =>
            ret'.raised = "none"]_vars
    /\ [][op' = "load_progress" /\ (~save_file.exists \/ ~arg'.read_ok) =>
            ret'.value = [type |-> "dict",
                          items |-> [level |-> [type |-> "int", n |-> 1],
                                     score |-> [type |-> "int", n |-> 0],
                                     tutorial_completed |-> [type |-> "bool", b |-> FALSE]]]]_vars
    /\ [][op' = "save_progress" /\ ~arg'.write_ok =>
            save_file' = save_file /\ ret'.raised = "none"]_vars

\* How often the score v occurs in a sequence of scores
Occurrences(scores, v) == Cardinality({i \in 1..Len(scores) : scores[i] = v})

\* The stored list has at most 5 entries, is sorted by score in descending
\* order, and holds the 5 highest of the submitted scores (all of them when
\* there are fewer than 5).
TopFive ==
    LET stored == IF high_scores_file.exists
                  THEN [i \in 1..Len(high_scores_file.value.items) |->
                           high_scores_file.value.items[i].score]
                  ELSE << >>
    IN /\ Len(stored) <= 5
       /\ Len(stored) = (IF Len(submitted) < 5 THEN Len(submitted) ELSE 5)
       /\ \A i \in 1..(Len(stored) - 1) : stored[i] >= stored[i + 1]
       /\ \A v \in 0..MaxScore :
             /\ Occurrences(stored, v) <= Occurrences(submitted, v)
             /\ Occurrences(stored, v) < Occurrences(submitted, v) =>
                   \A i \in 1..Len(stored) : stored[i] >= v

StepsDone == {tick_steps[i] : i \in 1..Len(tick_steps)}

\* C26: within an update of the Playing state the player update is done
\* before the ghosts' update, which decides on the player's position and
\* invisibility as the player update left them; the ghosts' update is done
\* before the ghost-contact damage check, which is done before the
\* level-completion check.
C26_FixedOrder ==
    /\ [][op' = "level_update" =>
            /\ "player_update" \in StepsDone
            /\ player_x' = player_x /\ invisibility_active' = invisibility_active
            /\ (ghost_state = "patrol" =>
                   (ghost_state' = "chase"
                      <=> (Abs(ghost_x - player_x) <= 1000 /\ ~invisibility_active)))]_vars
    /\ [][op' = "check_collisions" =>
            /\ "level_update" \in StepsDone
            /\ ret' => Abs((player_x \div 10) - (ghost_x \div 10)) < 22]_vars
    /\ [][op' = "level_completion" => "check_collisions" \in StepsDone]_vars
    /\ [][op' = "player_update" => tick_steps = << >>]_vars

\* The end of an update in which the player walked into the ghost and was
\* hurt, the ghost chasing.
C26_Witness ==
    /\ op = "level_completion" /\ tick_steps = << >> /\ updates_run = 2
    /\ health = PLAYER_MAX_HEALTH - 1 /\ invincible_timer = INVINCIBILITY_DURATION
    /\ ghost_state = "chase" /\ player_x = ContactStop
    /\ ~invisibility_active

\* The changes of state of the cycle patrol -> chase -> return -> patrol
StateCycle == {<<"patrol", "chase">>, <<"chase", "return">>, <<"return", "patrol">>}

\* C27: a ghost starts in state patrol, and one update either leaves its
\* state or moves it one step along patrol -> chase -> return -> patrol: never
\* patrol -> return, chase -> patrol or return -> chase, the last not even
\* with the visible player inside the detection radius.
C27_StateCycle ==
    /\ ghost_state = "patrol"
    /\ [][/\ ghost_state' \in {"patrol", "chase", "return"}
          /\ ghost_state' # ghost_state => <<ghost_state, ghost_state'>> \in StateCycle
          /\ ghost_state' # ghost_state => op' = "ghost_update"]_vars

\* An update of a returning ghost with the visible player inside the
\* detection radius: the ghost goes on returning.
C27_Witness ==
    /\ op = "ghost_update" /\ ghost_state = "return"
    /\ chase_timer = 0
    /\ Abs((ghost_x - ghost_vx) - player_x) <= GHOST_DETECTION_RADIUS
    /\ Abs(ghost_x - player_x) <= GHOST_DETECTION_RADIUS
    /\ ~invisibility_active
    /\ Abs(ghost_x - GhostStartX) >= RETURN_RADIUS

\* No corner of the player's bounding box around (x, y) is on a solid tile
CornersFree(x, y) ==
    /\ ~IsSolidTile(tile_map, (x - 120) \div TILE_SIZE, (y - 120) \div TILE_SIZE)
    /\ ~IsSolidTile(tile_map, (x + 120) \div TILE_SIZE, (y - 120) \div TILE_SIZE)
    /\ ~IsSolidTile(tile_map, (x - 120) \div TILE_SIZE, (y + 120) \div TILE_SIZE)
    /\ ~IsSolidTile(tile_map, (x + 120) \div TILE_SIZE, (y + 120) \div TILE_SIZE)

\* C28: an update commits the move along x iff no corner of the box at
\* (x + vx, y) is on a solid tile, and otherwise leaves x and sets vx to 0;
\* it then does the same for the move along y at the x it has arrived at; a
\* player whose corners are off solid tiles has them off solid tiles after
\* the update.
C28_PerAxis ==
    [][op' = "update_on_map" =>
         LET x == player_xy.x
             y == player_xy.y
             v == arg'
         IN  /\ IF CornersFree(x + v.vx, y)
                THEN player_xy'.x = x + v.vx /\ player_vx' = v.vx
                ELSE player_xy'.x = x /\ player_vx' = 0
             /\ IF CornersFree(player_xy'.x, y + v.vy)
                THEN player_xy'.y = y + v.vy /\ player_vy' = v.vy
                ELSE player_xy'.y = y /\ player_vy' = 0
             /\ CornersFree(x, y) => CornersFree(player_xy'.x, player_xy'.y)]_vars

\* An update in which the move along x was stopped by the house and the
\* move along y was made.
C28_Witness ==
    /\ op = "update_on_map"
    /\ arg.vx > 0 /\ player_vx = 0 /\ player_xy.x = TILE_SIZE - 120 - 2
    /\ arg.vy > 0 /\ player_vy = arg.vy /\ player_xy.y = TILE_SIZE + 120 + 2 + arg.vy
    /\ IsSolidTile(tile_map, 1, 1)

\* The point (x, y) is on a tile of the map that does not block movement
OnFreeTile(x, y) ==
    /\ 0 <= x \div TILE_SIZE /\ x \div TILE_SIZE < tile_map.width
    /\ 0 <= y \div TILE_SIZE /\ y \div TILE_SIZE < tile_map.height
    /\ ~IsSolidTile(tile_map, x \div TILE_SIZE, y \div TILE_SIZE)

\* C29: a ghost's update commits the move along x iff the point (x + vx, y)
\* is on a tile of the map that is not solid, and then the move along y iff
\* (x, y + vy) is, at the x it has arrived at, whatever its AI state; a
\* ghost on a tile that is not solid is on such a tile after the update.
C29_CentreTile ==
    [][op' = "ghost_update_on_map" =>
         LET g == map_ghost
             h == map_ghost'
         IN  /\ h.x = IF OnFreeTile(g.x + h.vx, g.y) THEN g.x + h.vx ELSE g.x
             /\ h.y = IF OnFreeTile(h.x, g.y + h.vy) THEN g.y + h.vy ELSE g.y
             /\ OnFreeTile(g.x, g.y) => OnFreeTile(h.x, h.y)]_vars

\* An update of a chasing ghost whose move along x is stopped by the house
\* while its move along y is made.
C29_Witness ==
    /\ op = "ghost_update_on_map"
    /\ map_ghost.state = "chase"
    /\ map_ghost.vx > 0 /\ map_ghost.x = TILE_SIZE - PX
    /\ IsSolidTile(tile_map, (map_ghost.x + map_ghost.vx) \div TILE_SIZE,
                   (map_ghost.y - map_ghost.vy) \div TILE_SIZE)
    /\ map_ghost.vy < 0 /\ map_ghost.y = TILE_SIZE + PX + map_ghost.vy

\* The map a Level starts from, all EMPTY
BlankMap == NewTileMap(MAP_WIDTH, MAP_HEIGHT)

\* The door-kind cells on the border of structure s in map m
BorderDoors(m, s) ==
    {c \in Border(s.x, s.y, s.width, s.height) : IsDoorTile(m, c[1], c[2])}

\* C31: a structure writer applied to a rectangle of a generated map leaves
\* in the rectangle what it leaves there on a blank map (nothing of the
\* earlier content survives), with WALL on every border cell but the door
\* cell in the middle of the bottom edge; and in a generated level the
\* border of every structure holds exactly one door-kind cell.
C31_SingleDoor ==
    level # NoLevelObject =>
        /\ \A i \in 1..Len(StructureCalls(level.generator)), low \in BOOLEAN :
              LET s == StructureCalls(level.generator)[i]
                  rolls == [low |-> low]
                  after == CreateStructure(level.tile_map, s, rolls)
                  blank == CreateStructure(BlankMap, s, rolls)
              IN  /\ \A c \in Rect(s.x, s.y, s.width, s.height) :
                        GetTile(after, c[1], c[2]) = GetTile(blank, c[1], c[2])
                  /\ \A c \in Border(s.x, s.y, s.width, s.height) \ {DoorCell(s)} :
                        GetTile(after, c[1], c[2]) = "WALL"
                  /\ BorderDoors(after, s) = {DoorCell(s)}
        /\ \A i \in 1..Len(StructureCalls(level.generator)) :
              Cardinality(BorderDoors(level.tile_map,
                                      StructureCalls(level.generator)[i])) = 1

(***************************************************************************)
(* C32: while ZOMBIE_POWER is active on the player, contact with a ghost   *)
(* never reduces the player's health.  In the main level the contact is    *)
(* settled by _check_collisions, which looks for GHOST_REPEL alone.        *)
(***************************************************************************)
C32_ZombieImmunity ==
    [][(/\ op' = "check_collisions"
        /\ \E i \in 1..Len(active_powerups) :
              /\ active_powerups[i].type = "ZOMBIE_POWER"
              /\ active_powerups[i].duration > 0)
          => health' >= health]_vars

(***************************************************************************)
(* C33: collecting an uncollected bonus candy raises the score by twice    *)
(* what collect_candy awards for the candy's points under the player's     *)
(* current double-points state, raises the candy counter by 1, and raises  *)
(* health by 1 clamped at 5.                                               *)
(***************************************************************************)
C33_BonusDoubles ==
    [][\A i \in 1..Len(candies) :
          (/\ op' = "collect" /\ arg' = [candy |-> i]
           /\ ~candies[i].collected /\ candies[i].type = "bonus")
          => /\ score' = score + 2 * ActualPoints(candies[i].points,
                                                  double_points_active)
             /\ candies_collected' = candies_collected + 1
             /\ health' = IF health + 1 > HEAL_CAP THEN HEAL_CAP ELSE health + 1]_vars

(***************************************************************************)
(* C34: restart_level, invoked from GAME_OVER or from the pause menu,      *)
(* always ends in PLAYING with a newly generated Level of the same level   *)
(* number, the player at the spawn point with health 3 and no candies      *)
(* collected, the night timer at 0 and night not active; the level number  *)
(* and the score are unchanged.  A Level is loaded whenever the restart    *)
(* buttons are shown, so the call never returns without doing this.        *)
(***************************************************************************)
C34_RestartLevel ==
    /\ [](current_state \in {"PAUSED", "GAME_OVER"} => current_level # 0)
    /\ [][op' = "restart_level" =>
             /\ current_state \in {"PAUSED", "GAME_OVER"}
             /\ current_state' = "PLAYING"
             /\ current_level_number' = current_level_number
             /\ current_level' = current_level_number
             /\ levels'[current_level_number] = FreshLevel
             /\ player_xy' = Spawn
             /\ health' = PLAYER_MAX_HEALTH
             /\ candies_collected' = 0
             /\ night_mode_timer' = 0
             /\ night_mode_active' = FALSE
             /\ score' = score]_vars

\* Restarted after a game over with candies collected and score earned
C34_Witness ==
    /\ op = "restart_level"
    /\ current_state = "PLAYING"
    /\ score > 0
    /\ candies_collected = 0
    /\ health = PLAYER_MAX_HEALTH

(***************************************************************************)
(* C35: a tick in which ghost contact brings the player's health to 0 ends *)
(* in GAME_OVER and performs no level completion: no level advance, no     *)
(* VICTORY, and no progress saved, even when the quota is met and the      *)
(* player is within the house radius on that tick.                         *)
(***************************************************************************)
C35_GameOverFinal ==
    [][(op' = "tick" /\ health > 0 /\ health' <= 0)
          => /\ current_state' = "GAME_OVER"
             /\ current_level_number' = current_level_number
             /\ current_level' = current_level
             /\ saved_level' = saved_level]_vars

(***************************************************************************)
(* C36: the player loses at most 1 health per tick, however many ghosts    *)
(* overlap the player and whether or not a trap detonates on that tick;    *)
(* two health losses are at least 120 ticks apart; the invincibility timer *)
(* lies in 0..120 and goes down by exactly 1 per player update until it is *)
(* 0 (a tick with a loss sets it to 120).                                  *)
(***************************************************************************)
C36_OneLossPerTick ==
    /\ [](invincible_timer \in 0..INVINCIBILITY_DURATION)
    /\ [][op' = "hurt_tick" =>
             /\ health' >= health - 1
             /\ health' < health => since_loss + 1 >= INVINCIBILITY_DURATION
             /\ invincible_timer' =
                   IF health' < health THEN INVINCIBILITY_DURATION
                   ELSE IF invincible_timer > 0 THEN invincible_timer - 1
                   ELSE 0]_vars

\* The second loss of a player, 120 ticks after the first, in a tick in
\* which a trap explodes on the player and two ghosts overlap the player
C36_Witness ==
    /\ op = "hurt_tick"
    /\ arg.overlapping = MaxOverlap
    /\ health = PLAYER_MAX_HEALTH - 2
    /\ since_loss = 0
    /\ traps = << >> /\ traps_added > 0
    /\ player_xy = TrapLocation(1)

(***************************************************************************)
(* C37: a ghost that enters "return" eventually re-enters "patrol": updated*)
(* every tick it comes within 20 px of its home and is never held in       *)
(* "return" forever, on any tile map and from any position a chase led to. *)
(***************************************************************************)
C37_ReturnEnds == (map_ghost.state = "return") ~> (map_ghost.state = "patrol")

(***************************************************************************)
(* C38: while the game is in PAUSED, GAME_OVER, VICTORY, SETTINGS or       *)
(* MAIN_MENU the simulation is frozen: a step that begins and ends in      *)
(* these states (an update tick, a key press, a change of menu) leaves the *)
(* player's position, velocity, health, candy count, score, invincibility  *)
(* timer and power-ups, the ghosts, the night timer and all puzzle, dig    *)
(* and trap state unchanged.                                               *)
(***************************************************************************)
C38_Frozen ==
    [][(current_state \in MenuStates /\ current_state' \in MenuStates)
          => UNCHANGED <<player_xy, moveVars, playerVars, ghostVars,
                         night_mode_timer, featVars>>]_vars

\* An update tick while the game is paused, a hit and a candy behind the
\* player and the invincibility timer still running
C38_Witness ==
    /\ op = "menu_update"
    /\ current_state = "PAUSED"
    /\ invincible_timer > 0
    /\ health < PLAYER_MAX_HEALTH
    /\ candies_collected > 0
    /\ night_mode_timer > 0

(***************************************************************************)
(* C39: after any sequence of game operations the LevelManager's current   *)
(* level number is within 1..max_level, and the level written to the       *)
(* progress record, which load_game loads later, is one of the levels      *)
(* 1..max_level.                                                           *)
(***************************************************************************)
C39_LevelInRange ==
    /\ current_level_number \in 1..MAX_LEVEL
    /\ saved_level \in 1..MAX_LEVEL

====
